---- MODULE Spec2Model ----
(***************************************************************************)
(* A model of the tiddlyverse storage layer: the line codec of tiddler.go, *)
(* the shared store functions and the three backends of the store file,    *)
(* and the tiddler handlers of serve.go.                                   *)
(*                                                                         *)
(* Go strings and byte slices are sequences of one-character strings, so   *)
(* that formatting, parsing and the title -> filename mapping are computed *)
(* character by character as the code computes them.  A Tiddler            *)
(* (map[string]interface{}) is a function from field names to values.      *)
(***************************************************************************)
EXTENDS Integers, Sequences, FiniteSets, TLC

\* ------------------------------------------------------------------------
\* bounds of the model
\* ------------------------------------------------------------------------

\* revisions a client may send in a PUT body or a WriteTiddler call: "0".."MaxRev"
MaxRev == 1

\* calls served by one store in a run
MaxCalls == 2

\* worker goroutines of an index build: pools of 1..MaxWorkers
MaxWorkers == 3

\* the page size of a bucket listing (1000 keys at S3), scaled down
MaxKeys == 4

\* calls in a run of calls that all succeed
MaxOkCalls == 3

\* PUT and DELETE tiddler requests a handler serves
MaxWrites == 2

\* ------------------------------------------------------------------------
\* strings
\* ------------------------------------------------------------------------

NL == "\n"

\* unicode.IsSpace, as used by strings.TrimSpace and the regexp class \s
IsSpace(c) == c \in {" ", "\t", NL, "\r"}

RECURSIVE IndexFrom(_, _, _)
IndexFrom(s, c, i) ==
    IF i > Len(s) THEN 0
    ELSE IF s[i] = c THEN i
    ELSE IndexFrom(s, c, i + 1)

\* strings.Index(s, c) for a one-character c, 1-based; 0 where Go returns -1
Index(s, c) == IndexFrom(s, c, 1)

HasPrefix(s, p) == Len(s) >= Len(p) /\ SubSeq(s, 1, Len(p)) = p

HasSuffix(s, p) == Len(s) >= Len(p) /\ SubSeq(s, Len(s) - Len(p) + 1, Len(s)) = p

TrimSuffix(s, p) == IF HasSuffix(s, p) THEN SubSeq(s, 1, Len(s) - Len(p)) ELSE s

RECURSIVE TrimLeft(_)
TrimLeft(s) == IF s # <<>> /\ IsSpace(Head(s)) THEN TrimLeft(Tail(s)) ELSE s

RECURSIVE TrimRight(_)
TrimRight(s) ==
    IF s # <<>> /\ IsSpace(s[Len(s)]) THEN TrimRight(SubSeq(s, 1, Len(s) - 1)) ELSE s

\* strings.TrimSpace
TrimSpace(s) == TrimRight(TrimLeft(s))

\* reWhitespaceOnly = `^\s*$`
reWhitespaceOnly(s) == \A i \in 1..Len(s) : IsSpace(s[i])

Digits == <<"0", "1", "2", "3", "4", "5", "6", "7", "8", "9">>

DigitValue(c) == (CHOOSE i \in 1..10 : Digits[i] = c) - 1

IsDigit(c) == \E i \in 1..10 : Digits[i] = c

RECURSIVE DigitsValue(_, _)
DigitsValue(s, acc) ==
    IF s = <<>> THEN acc ELSE DigitsValue(Tail(s), acc * 10 + DigitValue(Head(s)))

\* strconv.Atoi with its error dropped (old, _ := strconv.Atoi(..)): the value
\* of an optionally signed decimal numeral, and 0 for anything else
Atoi(s) ==
    LET neg  == s # <<>> /\ Head(s) = "-"
        body == IF s # <<>> /\ Head(s) \in {"-", "+"} THEN Tail(s) ELSE s
    IN  IF body = <<>> \/ \E i \in 1..Len(body) : ~IsDigit(body[i]) THEN 0
        ELSE IF neg THEN 0 - DigitsValue(body, 0)
        ELSE DigitsValue(body, 0)

RECURSIVE ItoaNat(_)
ItoaNat(n) == IF n < 10 THEN <<Digits[n + 1]>> ELSE ItoaNat(n \div 10) \o <<Digits[(n % 10) + 1]>>

\* strconv.Itoa
Itoa(n) == IF n < 0 THEN <<"-">> \o ItoaNat(0 - n) ELSE ItoaNat(n)

\* ------------------------------------------------------------------------
\* tiddlers
\* ------------------------------------------------------------------------

TITLE == <<"t", "i", "t", "l", "e">>
TEXT == <<"t", "e", "x", "t">>
REVISION == <<"r", "e", "v", "i", "s", "i", "o", "n">>
TYPE == <<"t", "y", "p", "e">>

\* the empty map
EmptyTiddler == [f \in {} |-> <<>>]

\* t[name] = value on a Go map
SetField(t, name, value) ==
    [f \in DOMAIN t \cup {name} |-> IF f = name THEN value ELSE t[f]]

\* Tiddler.Field: the value of the field, "" when the map has no such field
Field(t, name) == IF name \in DOMAIN t THEN t[name] ELSE <<>>

\* areTiddlersEqual of utils_test.go, for string values: every field of want
\* is in have with the same value; the field counts are compared only when both
\* hold a revision
areTiddlersEqual(want, have) ==
    /\ ~(/\ Cardinality(DOMAIN want) # Cardinality(DOMAIN have)
          /\ REVISION \in DOMAIN have
          /\ REVISION \in DOMAIN want)
    /\ \A k \in DOMAIN want : k \in DOMAIN have /\ want[k] = have[k]

\* a []byte value (the text of a binary sidecar), as opposed to a string value:
\* the bytes behind a marker that no character equals
Bytes(b) == <<"[]byte">> \o b

IsBytes(v) == v # <<>> /\ v[1] = "[]byte"

\* ------------------------------------------------------------------------
\* the line encoding (tiddler.go)
\* ------------------------------------------------------------------------

\* the names Write emits as header lines: every field but text
HeaderNames(t) == DOMAIN t \ {TEXT}

\* the orders in which `for f, v := range t.tid` may visit the header fields
\* (Go leaves the iteration order of a map unspecified)
Orders(t) ==
    LET n == Cardinality(HeaderNames(t))
    IN  {o \in [1..n -> HeaderNames(t)] : \A i, j \in 1..n : o[i] = o[j] => i = j}

RECURSIVE WriteHeader(_, _)
WriteHeader(t, order) ==
    IF order = <<>> THEN <<>>
    ELSE Head(order) \o <<":", " ">> \o t[Head(order)] \o <<NL>>
             \o WriteHeader(t, Tail(order))

\* v.(string) on a []byte value panics
WritePanics(t) == \E f \in DOMAIN t : IsBytes(t[f])

\* Write without the line buf.WriteByte('\n') that separates header and text
WriteNoSeparator(t, order) ==
    WriteHeader(t, order) \o (IF TEXT \in DOMAIN t THEN t[TEXT] ELSE <<>>)

\* TiddlerFile.Write: the bytes handed to w.Write, for a map visited in `order`.
\* (The `fields` case needs a nested map as a value; putTiddler flattens it
\* before writing and Read never produces one, so no value here is a map.)
Write(t, order) ==
    WriteHeader(t, order) \o <<NL>> \o (IF TEXT \in DOMAIN t THEN t[TEXT] ELSE <<>>)

\* a ReadString that drops a last line that has no line break
ReadStringDropsLast(rest) ==
    LET i == Index(rest, NL)
    IN  IF i = 0 THEN [line |-> <<>>, after |-> <<>>, eof |-> TRUE]
        ELSE [line |-> SubSeq(rest, 1, i), after |-> SubSeq(rest, i + 1, Len(rest)),
              eof |-> FALSE]

\* bufio.Reader.ReadString('\n'): the line up to and including the first
\* newline, or the whole rest with io.EOF when there is none
ReadString(rest) ==
    LET i == Index(rest, NL)
    IN  IF i = 0 THEN [line |-> rest, after |-> <<>>, eof |-> TRUE]
        ELSE [line |-> SubSeq(rest, 1, i), after |-> SubSeq(rest, i + 1, Len(rest)),
              eof |-> FALSE]

RECURSIVE ReadLoop(_, _)
ReadLoop(rest, tid) ==
    LET r   == ReadString(rest)
        idx == Index(r.line, ":")
    IN  IF reWhitespaceOnly(r.line)
        THEN [panic |-> FALSE,
              tid   |-> IF Len(r.after) > 0 THEN SetField(tid, TEXT, r.after) ELSE tid]
        ELSE IF idx = 0
        THEN [panic |-> TRUE, tid |-> tid]     \* line[:-1]: slice bounds out of range
        ELSE LET name  == SubSeq(r.line, 1, idx - 1)
                 value == TrimSpace(SubSeq(r.line, idx + 1, Len(r.line)))
                 tid2  == SetField(tid, name, value)
             IN  IF r.eof THEN [panic |-> FALSE, tid |-> tid2]
                 ELSE ReadLoop(r.after, tid2)

\* a Read that leaves a tiddler without revision as it is
ReadNoDefault(bytes) == ReadLoop(bytes, EmptyTiddler)

\* TiddlerFile.Read on a non-nil reader that yields `bytes`
Read(bytes) ==
    LET r == ReadLoop(bytes, EmptyTiddler)
    IN  IF r.panic THEN r
        ELSE [panic |-> FALSE,
              tid   |-> IF REVISION \in DOMAIN r.tid THEN r.tid
                        ELSE SetField(r.tid, REVISION, <<"0">>)]

TitleColon == <<"t", "i", "t", "l", "e", ":">>

\* the loop of a title peek that does not stop at the whitespace-only line
RECURSIVE TileLoopNoStop(_)
TileLoopNoStop(rest) ==
    LET r == ReadString(rest)
    IN  IF HasPrefix(r.line, TitleColon)
        THEN LET title == TrimSpace(SubSeq(r.line, Index(r.line, ":") + 1, Len(r.line)))
             IN  IF title = <<>> THEN [result |-> "err", title |-> <<>>]
                 ELSE [result |-> "ok", title |-> title]
        ELSE IF r.eof THEN [result |-> "err", title |-> <<>>]
        ELSE TileLoopNoStop(r.after)

\* the loop of getTiddlerFileTile over what the reader still yields
RECURSIVE TileLoop(_)
TileLoop(rest) ==
    LET r == ReadString(rest)
    IN  IF reWhitespaceOnly(r.line) THEN [result |-> "err", title |-> <<>>]
        ELSE IF HasPrefix(r.line, TitleColon)
        THEN LET title == TrimSpace(SubSeq(r.line, Index(r.line, ":") + 1, Len(r.line)))
             IN  IF title = <<>> THEN [result |-> "err", title |-> <<>>]
                 ELSE [result |-> "ok", title |-> title]
        ELSE IF r.eof THEN [result |-> "err", title |-> <<>>]
        ELSE TileLoop(r.after)

\* a title peek that reads on after the whitespace-only line
getTiddlerFileTileNoStop(isNil, bytes) ==
    IF isNil THEN [result |-> "err", title |-> <<>>] ELSE TileLoopNoStop(bytes)

\* getTiddlerFileTile(f): f is nil, or a reader that yields `bytes`
getTiddlerFileTile(isNil, bytes) ==
    IF isNil THEN [result |-> "err", title |-> <<>>] ELSE TileLoop(bytes)

\* ------------------------------------------------------------------------
\* shared store functions
\* ------------------------------------------------------------------------

\* the storage types of NewHandlerSelector: NewFileStore, NewGoogleBucketStore,
\* NewAwsS3Store
Kinds == {"file", "gs", "s3"}

\* s.tiddlersDir = filepath.Join(s.baseDir, "tiddlers"), here a one-letter directory
tiddlersDir == <<"d">>

DotTid == <<".", "t", "i", "d">>
DotMeta == <<".", "m", "e", "t", "a">>

\* filepath.Join of a clean directory and a file name that holds no separator
Join(dir, name) == dir \o <<"/">> \o name

\* a pattern that matches the path separator only
reTiddlerFilenameSlashOnly(c) == c = "/"

\* reTiddlerFilename = `[/:"]`
reTiddlerFilename(c) == c \in {"/", ":", "\""}

\* reTiddlerFilename.ReplaceAllString(title, "_")
ReplaceAllString(title) ==
    [i \in 1..Len(title) |-> IF reTiddlerFilename(title[i]) THEN "_" ELSE title[i]]

tiddlerFilename(title) == ReplaceAllString(title) \o DotTid

\* the canonical location of a title
CanonicalPath(title) == Join(tiddlersDir, tiddlerFilename(title))

ImgFixTid ==
    <<"$", "_", "_", "p", "l", "u", "g", "i", "n", "s", "_", "t", "o", "b", "i", "b",
      "e", "e", "r", "_", "r", "a", "t", "e", "_", "s", "t", "y", "l", "e", "s", "_",
      "i", "m", "g", "f", "i", "x", ".", "t", "i", "d">>

isTiddlerFile(path) ==
    /\ ~HasPrefix(path, <<".">>)
    /\ HasSuffix(path, DotTid) \/ HasSuffix(path, DotMeta)
    /\ ~HasSuffix(path, ImgFixTid)

\* reBinaryType = `/(pdf|gif|jpeg|png|x-icon)$`
reBinaryType(s) ==
    \E ext \in {<<"p", "d", "f">>, <<"g", "i", "f">>, <<"j", "p", "e", "g">>,
                <<"p", "n", "g">>, <<"x", "-", "i", "c", "o", "n">>} :
        HasSuffix(s, <<"/">> \o ext)

\* m without the key k: delete(m, k)
MapDelete(m, k) == [x \in DOMAIN m \ {k} |-> m[x]]

\* m[k] = v
MapSet(m, k, v) == [x \in DOMAIN m \cup {k} |-> IF x = k THEN v ELSE m[x]]

\* newReader of the three stores: the object's bytes, or an error when the
\* backend holds no object at path
newReaderFails(be, path) == path \notin DOMAIN be

\* readTiddlerFileWithReadCloser: the result, the tiddler and the locations the
\* reader was called with, in order
readTiddlerFileWithReadCloser(be, path) ==
    IF newReaderFails(be, path)
    THEN [result |-> "err", tid |-> EmptyTiddler, reads |-> <<path>>]
    ELSE LET tfile == Read(be[path])
         IN  IF tfile.panic
             THEN [result |-> "panic", tid |-> EmptyTiddler, reads |-> <<path>>]
             ELSE IF HasSuffix(path, DotMeta)
             THEN LET nonMetaFilename == TrimSuffix(path, DotMeta)
                      reads == <<path, nonMetaFilename>>
                  IN  IF newReaderFails(be, nonMetaFilename)
                      THEN [result |-> "err", tid |-> EmptyTiddler, reads |-> reads]
                      ELSE IF TYPE \notin DOMAIN tfile.tid   \* tid["type"].(string) on nil
                      THEN [result |-> "panic", tid |-> EmptyTiddler, reads |-> reads]
                      ELSE [result |-> "ok",
                            tid    |-> SetField(tfile.tid, TEXT,
                                           IF reBinaryType(tfile.tid[TYPE])
                                           THEN Bytes(be[nonMetaFilename])
                                           ELSE be[nonMetaFilename]),
                            reads  |-> reads]
             ELSE [result |-> "ok", tid |-> tfile.tid, reads |-> <<path>>]

\* the file name getTiddlerFileFromStore resolves a title to
ResolveFilename(title, index) ==
    IF title \in DOMAIN index THEN index[title] ELSE CanonicalPath(title)

\* the cache looked up under the title, as the maps' writers key it
CacheKeyByTitle(title, filename) == title

\* the key under which getTiddlerFileFromStore looks into the cache
CacheKey(title, filename) == filename

getTiddlerFileFromStore(title, index, cache, be) ==
    LET filename == ResolveFilename(title, index)
    IN  IF CacheKey(title, filename) \in DOMAIN cache
        THEN [result |-> "ok", tid |-> cache[CacheKey(title, filename)], reads |-> <<>>]
        ELSE readTiddlerFileWithReadCloser(be, filename)

\* ------------------------------------------------------------------------
\* writing and deleting
\* ------------------------------------------------------------------------

\* where a write can fail, per backend.  "open": os.Create returns an error
\* (the bucket stores' writer functions always return a nil error).  "write":
\* w.Write returns an error (disk error, a failed PutObject, a failed upload).
\* "close": the Google bucket writer commits the object in Close, which is
\* where a failed upload is reported (s3ObjectWriteCloser.Close returns nil).
WriterFailures(kind) ==
    CASE kind = "file" -> {"none", "open", "write"}
      [] kind = "gs"   -> {"none", "write", "close"}
      [] kind = "s3"   -> {"none", "write"}

\* the backend once the writer for path was opened, written with buf and
\* closed: os.Create truncates the file before anything is written, a bucket
\* object is replaced only when the upload completes
StoredByWriter(kind, be, path, buf, fail) ==
    IF fail = "none" THEN MapSet(be, path, buf)
    ELSE IF kind = "file" THEN MapSet(be, path, <<>>)
    ELSE be

\* writeTiddlerToWriter with the store's writer: the error returned (result),
\* the maps and the backend afterwards, the locations the writer was opened
\* for and the bytes handed to w.Write
writeTiddlerToWriter(kind, t, order, fail, index, cache, be) ==
    LET title == Field(t, TITLE)
        path  == CanonicalPath(title)
        buf   == Write(t, order)
    IN  IF fail = "open"
        THEN [result |-> "err", index |-> index, cache |-> cache, backend |-> be,
              opened |-> <<path>>, wrote |-> <<>>]
        ELSE IF WritePanics(t)
        THEN [result |-> "panic", index |-> index, cache |-> cache,
              backend |-> StoredByWriter(kind, be, path, <<>>, "write"),
              opened |-> <<path>>, wrote |-> <<>>]
        ELSE IF fail = "write"
        THEN \* the err of `if err := tfile.Write(w)` is scoped to the if statement:
             \* `return err` returns the nil err of writer(path)
             [result |-> "ok", index |-> index, cache |-> cache,
              backend |-> StoredByWriter(kind, be, path, buf, fail),
              opened |-> <<path>>, wrote |-> buf]
        ELSE \* tfile.Write returned nil; the error of the deferred w.Close() is dropped
             [result |-> "ok",
              index |-> MapSet(index, title, path),
              cache |-> MapSet(cache, title, t),
              backend |-> StoredByWriter(kind, be, path, buf, fail),
              opened |-> <<path>>, wrote |-> buf]

\* fileStore.WriteTiddler, googleBucketStore.WriteTiddler, awsS3Store.WriteTiddler
StoreWriteTiddler(kind, t, order, fail, index, cache, be) ==
    IF kind = "gs" /\ TITLE \notin DOMAIN t     \* t["title"].(string) in the trace line
    THEN [result |-> "panic", index |-> index, cache |-> cache, backend |-> be,
          opened |-> <<>>, wrote |-> <<>>]
    ELSE writeTiddlerToWriter(kind, t, order, fail, index, cache, be)

\* the location DeleteTiddler removes: s.tiddlerToFile[title], the empty
\* string when the map has no such title
DeleteLocation(title, index) == IF title \in DOMAIN index THEN index[title] ELSE <<>>

\* os.Remove, ObjectHandle.Delete and S3 DeleteObject: whether the backend
\* removal of path returns an error.  fail = "io" is a failure of the medium.
\* Removing a file or a bucket object that does not exist is an error; S3
\* rejects an empty key and answers a missing key with success.
removeFails(kind, be, path, fail) ==
    \/ fail = "io"
    \/ kind \in {"file", "gs"} /\ path \notin DOMAIN be
    \/ kind = "s3" /\ path = <<>>

\* DeleteTiddler that forgets the title but never removes the backend object
StoreDeleteTiddlerMapsOnly(kind, title, fail, index, cache, be) ==
    LET path == DeleteLocation(title, index)
    IN  IF removeFails(kind, be, path, fail)
        THEN [result |-> "err", index |-> index, cache |-> cache, backend |-> be]
        ELSE [result |-> "ok", index |-> MapDelete(index, title),
              cache |-> MapDelete(cache, title), backend |-> be]

\* DeleteTiddler that forgets the title before it knows the removal succeeded
StoreDeleteTiddlerEager(kind, title, fail, index, cache, be) ==
    LET path == DeleteLocation(title, index)
    IN  IF removeFails(kind, be, path, fail)
        THEN [result |-> "err", index |-> MapDelete(index, title),
              cache |-> MapDelete(cache, title), backend |-> be]
        ELSE [result |-> "ok", index |-> MapDelete(index, title),
              cache |-> MapDelete(cache, title), backend |-> MapDelete(be, path)]

\* DeleteTiddler without the line delete(s.tiddlerCache, title)
StoreDeleteTiddlerKeepsCache(kind, title, fail, index, cache, be) ==
    LET path == DeleteLocation(title, index)
    IN  IF removeFails(kind, be, path, fail)
        THEN [result |-> "err", index |-> index, cache |-> cache, backend |-> be]
        ELSE [result |-> "ok", index |-> MapDelete(index, title), cache |-> cache,
              backend |-> MapDelete(be, path)]

\* fileStore.DeleteTiddler, googleBucketStore.DeleteTiddler, awsS3Store.DeleteTiddler
StoreDeleteTiddler(kind, title, fail, index, cache, be) ==
    LET path == DeleteLocation(title, index)
    IN  IF removeFails(kind, be, path, fail)
        THEN [result |-> "err", index |-> index, cache |-> cache, backend |-> be]
        ELSE [result |-> "ok",
              index |-> MapDelete(index, title),
              cache |-> MapDelete(cache, title),
              backend |-> MapDelete(be, path)]

\* ------------------------------------------------------------------------
\* the PUT handler (serve.go)
\* ------------------------------------------------------------------------

StoryList == <<"$", ":", "/", "S", "t", "o", "r", "y", "L", "i", "s", "t">>

\* a handler that leaves revision at its initial 0
NextRevisionReset(old) == 0

\* the revision putTiddler sets from the stored tiddler: revision := 0;
\* revision += old
NextRevision(old) == 0 + old

\* the tiddler putTiddler hands to WriteTiddler: the decoded body, with the
\* revision taken from the stored tiddler of that name when there is one
PutRevised(name, body, index, cache, be) ==
    LET got == getTiddlerFileFromStore(name, index, cache, be)
    IN  IF got.result = "ok"
        THEN SetField(body, REVISION, Itoa(NextRevision(Atoi(Field(got.tid, REVISION)))))
        ELSE body

\* handlerWithStore.putTiddler for the unescaped name and the decoded body (all
\* values strings, so the tags and fields rewrites change nothing): result
\* "ok" is 204, "err" is 400 or 500
putTiddler(kind, name, body, order, fail, index, cache, be) ==
    LET got == getTiddlerFileFromStore(name, index, cache, be)
        unchanged == [index |-> index, cache |-> cache, backend |-> be,
                      opened |-> <<>>, wrote |-> <<>>, reads |-> <<>>]
    IN  IF name = <<>> THEN [result |-> "err"] @@ unchanged
        ELSE IF name = StoryList THEN [result |-> "ok"] @@ unchanged
        ELSE IF got.result = "panic"
        THEN [result |-> "panic", reads |-> got.reads] @@ unchanged
        ELSE [reads |-> got.reads] @@
             StoreWriteTiddler(kind, PutRevised(name, body, index, cache, be),
                               order, fail, index, cache, be)

\* ------------------------------------------------------------------------
\* authentication (serve.go)
\* ------------------------------------------------------------------------

\* AuthAnonUsername
GUEST == <<"G", "U", "E", "S", "T">>

\* a []string: nil, or a slice of the users it lists
NilSlice == [isNil |-> TRUE, users |-> {}]
Slice(users) == [isNil |-> FALSE, users |-> users]

\* Credentials{}: no passwords, Readers and Writers nil
NoCredentials == [pw |-> << >>, Readers |-> NilSlice, Writers |-> NilSlice]

\* the zero authContext
ZeroAuthContext == [Username |-> <<>>, CanBeAnonymous |-> FALSE, WritingAllowed |-> FALSE]

\* a request: whether it carries a Basic Authorization header, the pair in it,
\* and its URL path
NoRequest == [hasBasic |-> FALSE, user |-> <<>>, pass |-> <<>>, path |-> "/"]

\* no request has been served
NoAuth == [served |-> "none", req |-> NoRequest, ok |-> TRUE, ctx |-> ZeroAuthContext]

\* a userCanWrite that lets every user write
userCanWriteAnyone(c, user, isAuthenticated) == TRUE

\* Credentials.userCanWrite
userCanWrite(c, user, isAuthenticated) ==
    IF c.Writers.isNil \/ c.Writers.users = {} THEN TRUE
    ELSE \E r \in c.Writers.users : r = user /\ isAuthenticated

\* credUserOk && subtle.ConstantTimeCompare(pass, credPass) == 1, for the pair
\* of r.BasicAuth()
isAuthenticated(c, req) ==
    /\ req.hasBasic
    /\ req.user \in DOMAIN c.pw
    /\ c.pw[req.user] = req.pass

\* a basicAuthCtx that lets unauthenticated requests through whatever Readers is
basicAuthCtxOpen(c, req) ==
    [ok  |-> TRUE,
     ctx |-> IF isAuthenticated(c, req)
             THEN [Username |-> req.user, CanBeAnonymous |-> FALSE,
                   WritingAllowed |-> userCanWrite(c, req.user, TRUE)]
             ELSE [Username |-> GUEST,
                   CanBeAnonymous |-> c.Writers.isNil \/ c.Readers.isNil,
                   WritingAllowed |-> c.Writers.isNil]]

\* basicAuthCtx(w, r, creds): the authContext and ok
basicAuthCtx(c, req) ==
    LET anon == [Username |-> GUEST,
                 CanBeAnonymous |-> c.Writers.isNil \/ c.Readers.isNil,
                 WritingAllowed |-> c.Writers.isNil]
        ctx  == IF isAuthenticated(c, req)
                THEN [Username |-> req.user, CanBeAnonymous |-> FALSE,
                      WritingAllowed |-> userCanWrite(c, req.user, TRUE)]
                ELSE anon
    IN  IF req.path # "/login-basic" /\ ~isAuthenticated(c, req) /\ ~c.Readers.isNil
        THEN [ok |-> FALSE, ctx |-> ZeroAuthContext]
        ELSE [ok |-> TRUE, ctx |-> ctx]

\* ------------------------------------------------------------------------
\* listing
\* ------------------------------------------------------------------------

\* what a worker of getAllTiddlerFilesFromStore does with a location: it panics
\* when the parse panics and when the tiddler it got has no title, which
\* includes the nil tiddler of a failed read
ListWorkerPanics(be, p) ==
    \/ readTiddlerFileWithReadCloser(be, p).result # "ok"
    \/ TITLE \notin DOMAIN readTiddlerFileWithReadCloser(be, p).tid

\* a listing that returns as soon as the walker is done, without wg.Wait()
getAllTiddlerFilesFromStoreNoWait(paths, cache, be) ==
    IF DOMAIN cache # {}
    THEN [result |-> "ok", all |-> cache, walked |-> FALSE, readAll |-> {}]
    ELSE [result |-> "ok", all |-> << >>, walked |-> TRUE, readAll |-> {}]

\* a listing that ignores the cache
getAllTiddlerFilesFromStoreAlwaysWalk(paths, cache, be) ==
    IF \E p \in paths : ListWorkerPanics(be, p)
    THEN [result |-> "panic", all |-> << >>, walked |-> TRUE, readAll |-> paths]
    ELSE [result |-> "ok",
          all |-> [p \in paths |-> readTiddlerFileWithReadCloser(be, p).tid],
          walked |-> TRUE, readAll |-> paths]

\* getAllTiddlerFilesFromStore with a walker that passes `paths`: the tiddlers
\* returned, as a function from where each came from (the cached title, or the
\* location read) because the order of the slice is the workers' order;
\* whether the walker was called; the locations the reader was called with
getAllTiddlerFilesFromStore(paths, cache, be) ==
    IF DOMAIN cache # {}
    THEN [result |-> "ok", all |-> cache, walked |-> FALSE, readAll |-> {}]
    ELSE IF \E p \in paths : ListWorkerPanics(be, p)
    THEN [result |-> "panic", all |-> << >>, walked |-> TRUE, readAll |-> paths]
    ELSE [result |-> "ok",
          all |-> [p \in paths |-> readTiddlerFileWithReadCloser(be, p).tid],
          walked |-> TRUE, readAll |-> paths]

\* ------------------------------------------------------------------------
\* store construction
\* ------------------------------------------------------------------------

\* the stored locations that qualify for a store's walk.  fileStore.walk
\* tests the path relative to tiddlersDir, the bucket walks test the whole key.
Qualifying(kind, keys) ==
    LET prefix == tiddlersDir \o <<"/">>
    IN  IF kind = "file"
        THEN {p \in keys :
                 /\ HasPrefix(p, prefix)
                 /\ isTiddlerFile(SubSeq(p, Len(prefix) + 1, Len(p)))}
        ELSE {p \in keys : HasPrefix(p, tiddlersDir) /\ isTiddlerFile(p)}

\* the characters a key is made of, in the order of their bytes
Ascii ==
    <<" ", "!", "#", "$", "%", "&", "(", ")", "*", "+", ",", "-", ".", "/",
      "0", "1", "2", "3", "4", "5", "6", "7", "8", "9", ":", ";", "<", "=", ">", "?",
      "@", "A", "B", "C", "D", "E", "F", "G", "H", "I", "J", "K", "L", "M", "N", "O",
      "P", "Q", "R", "S", "T", "U", "V", "W", "X", "Y", "Z", "[", "]", "^", "_",
      "a", "b", "c", "d", "e", "f", "g", "h", "i", "j", "k", "l", "m", "n", "o",
      "p", "q", "r", "s", "t", "u", "v", "w", "x", "y", "z", "{", "|", "}", "~">>

Rank(c) == CHOOSE i \in DOMAIN Ascii : Ascii[i] = c

\* a bucket lists its keys in the binary order of their bytes
RECURSIVE KeyLess(_, _)
KeyLess(a, b) ==
    IF b = <<>> THEN FALSE
    ELSE IF a = <<>> THEN TRUE
    ELSE IF Head(a) = Head(b) THEN KeyLess(Tail(a), Tail(b))
    ELSE Rank(Head(a)) < Rank(Head(b))

\* s3svc.ListObjectsV2 with a Bucket and nothing else, called once: the first
\* page of the whole bucket, which holds at most MaxKeys keys
ListObjectsV2(keys) ==
    IF Cardinality(keys) <= MaxKeys THEN keys
    ELSE {k \in keys : Cardinality({j \in keys : KeyLess(j, k)}) < MaxKeys}

\* the locations the store's walk passes to its callback.  fileStore.walk
\* visits the whole tree under tiddlersDir, googleBucketStore.walk asks for
\* pages until the page token is empty, awsS3Store.walk lists once.
walk(kind, be) ==
    IF kind = "s3"
    THEN Qualifying(kind, ListObjectsV2(DOMAIN be))
    ELSE Qualifying(kind, DOMAIN be)

\* the walked locations a worker of buildCacheAndIndex inserts: read, parsed
\* and holding a title
Indexable(kind, be) ==
    {p \in walk(kind, be) :
        LET r == readTiddlerFileWithReadCloser(be, p)
        IN  r.result = "ok" /\ TITLE \in DOMAIN r.tid}

\* a worker panics on a location, which ends the process
BuildPanics(kind, be) ==
    \E p \in walk(kind, be) : readTiddlerFileWithReadCloser(be, p).result = "panic"

\* the title a worker of buildCacheAndIndex reads at a location
TitleAt(be, p) == readTiddlerFileWithReadCloser(be, p).tid[TITLE]

\* for every title found, the location of the worker that inserted it last
BuildWinners(kind, be) ==
    {w \in [{TitleAt(be, p) : p \in Indexable(kind, be)} -> Indexable(kind, be)] :
        \A t \in DOMAIN w : TitleAt(be, w[t]) = t}

\* buildCacheAndIndex: the (index, cache) pairs it can return.  Every worker
\* sets index[title] and cache[title] in one critical section, so for each
\* title the two maps hold the location and the tiddler of the same worker:
\* the one that inserted that title last.
buildCacheAndIndex(kind, be) ==
    {[index |-> w,
      cache |-> [t \in DOMAIN w |-> readTiddlerFileWithReadCloser(be, w[t]).tid]] :
        w \in BuildWinners(kind, be)}

\* ------------------------------------------------------------------------
\* inputs
\* ------------------------------------------------------------------------

TitleA == <<"A">>
TitleB1 == <<"B", "/">>
TitleB2 == <<"B", ":">>
NoTitle == <<>>

\* the titles of the model; TitleB1 and TitleB2 share the file name B_.tid
Titles == {TitleA, TitleB1, TitleB2}

Hello == <<"h", "e", "l", "l", "o">>
Hello2 == <<"h", "e", "l", "l", "o", "2">>

Revisions == {Itoa(n) : n \in 0..MaxRev}

Tid2(f1, v1, f2, v2) == SetField(SetField(EmptyTiddler, f1, v1), f2, v2)

Tid3(f1, v1, f2, v2, f3, v3) == SetField(Tid2(f1, v1, f2, v2), f3, v3)

\* the tiddlers callers write: new tiddlers without a revision, one without a
\* title, and updates of A that carry the revision the client knows
InputTiddlers ==
    {Tid2(TITLE, t, TEXT, Hello) : t \in Titles}
        \cup {SetField(EmptyTiddler, TEXT, Hello)}
        \cup {Tid3(TITLE, TitleA, TEXT, Hello2, REVISION, r) : r \in Revisions}

\* a location that is no title's canonical location
StrayPath == Join(tiddlersDir, <<"x">> \o DotTid)

\* the backends a store is opened on: an empty tiddlers directory; a record of
\* A kept in a file of another name; that file next to a later revision of A
\* in A's canonical file; a file of a tiddler that has no title
InitBackends ==
    LET stray == Write(Tid2(TITLE, TitleA, TEXT, Hello), <<TITLE>>)
        anon  == Write(SetField(EmptyTiddler, TEXT, Hello), <<>>)
        canon == Write(Tid3(TITLE, TitleA, TEXT, Hello2, REVISION, <<"1">>),
                       <<TITLE, REVISION>>)
    IN  {[p \in {} |-> <<>>],
         [p \in {StrayPath} |-> stray],
         [p \in {StrayPath} |-> anon],
         [p \in {StrayPath, CanonicalPath(TitleA)} |-> IF p = StrayPath THEN stray ELSE canon]}

\* ------------------------------------------------------------------------
\* state
\* ------------------------------------------------------------------------

VARIABLES
    kind,           \* which store this is
    backend,        \* location -> bytes: the files or bucket objects
    tiddlerToFile,  \* the Index: title -> location
    tiddlerCache,   \* the Cache: title -> Tiddler
    last,           \* the call that led to this state and what it did
    deleted,        \* titles deleted with success and not written since
    deletedAlone,   \* the same, with no write to the title's canonical file since
    calls,          \* how many calls the store has served
    \* buildCacheAndIndex while it runs
    bpc,            \* where its caller is: "walk", "wait", "returned", "failed", "panicked"
    numWorkers,     \* the size of the worker pool and of the channel's buffer
    paths,          \* the channel: locations sent and not yet received
    walkLeft,       \* locations the walker has still to pass to its callback
    worker,         \* per worker goroutine: [st, path, tid]
    tried,          \* locations a worker is done with
    listFails,      \* the backend's enumeration fails during this walk
    \* callers running on one store at the same time
    caller,         \* per caller: [op, title, pc, seen]
    crashed,        \* the runtime ended the process on a concurrent map access
    mu,             \* the mutex of buildCacheAndIndex: 0, or the worker that holds it
    \* the HTTP server
    creds,          \* the Credentials the server was started with
    auth,           \* the last request, and what the middleware made of it
    handlerMap,     \* the names of the wikis that have a handler
    folders,        \* the server's storage: folder -> the files in it
    \* one wiki's handlerWithStore
    indexCache,     \* *bytes.Buffer: nil, or the index page it holds
    faviconCache,   \* *bytes.Buffer: nil, or the icon it holds
    skinnyListCache,\* []Tiddler: nil, or the tiddlers of the skinny list
    writer,         \* the PUT or DELETE tiddler request in progress
    reader          \* the index or skinny-list GET request in progress

storeVars == <<backend, tiddlerToFile, tiddlerCache>>
ghostVars == <<last, deleted, deletedAlone, calls>>
buildVars == <<bpc, numWorkers, paths, walkLeft, worker, tried, listFails, mu>>
concVars == <<caller, crashed>>
handlerVars == <<indexCache, faviconCache, skinnyListCache, writer, reader>>
serveVars == <<creds, auth, handlerMap, folders, handlerVars>>

vars == <<kind, backend, tiddlerToFile, tiddlerCache, last, deleted, deletedAlone, calls,
          bpc, numWorkers, paths, walkLeft, worker, tried, listFails, caller, crashed,
          mu, creds, auth, handlerMap, folders,
          indexCache, faviconCache, skinnyListCache, writer, reader>>

\* no index build is running: the constructor has returned
BuildNotRunning ==
    /\ bpc = "returned"
    /\ numWorkers = 1
    /\ paths = <<>>
    /\ walkLeft = {}
    /\ worker = <<>>
    /\ tried = {}
    /\ listFails = FALSE
    /\ mu = 0

\* the store's methods are called one at a time
OneCallerAtATime ==
    /\ caller = <<>>
    /\ crashed = FALSE

\* a *bytes.Buffer that is nil
NilBuffer == [isNil |-> TRUE, bytes |-> <<>>]

\* a []Tiddler that is nil
NilList == [isNil |-> TRUE, list |-> {}]

\* no PUT or DELETE tiddler request is in progress
NoWriter == [pc |-> "idle", op |-> "none", name |-> <<>>, body |-> EmptyTiddler,
             had |-> FALSE]

\* no index or skinny-list request is in progress, and none was served
NoReader == [pc |-> "idle", op |-> "none", quiet |-> FALSE, hit |-> FALSE,
             resp |-> {}]

\* the handlerWithStore as NewHandler leaves it, serving no request
NoHandlerRequests ==
    /\ indexCache = NilBuffer
    /\ faviconCache = NilBuffer
    /\ skinnyListCache = NilList
    /\ writer = NoWriter
    /\ reader = NoReader

\* the store is used without the HTTP server in front of it
NotServing ==
    /\ creds = NoCredentials
    /\ auth = NoAuth
    /\ handlerMap = {}
    /\ folders = << >>
    /\ NoHandlerRequests

NoCall ==
    [op |-> "new", title |-> <<>>, t |-> EmptyTiddler, fail |-> "none",
     result |-> "ok", reads |-> <<>>, opened |-> <<>>, wrote |-> <<>>,
     ret |-> EmptyTiddler, held |-> FALSE,
     all |-> << >>, walked |-> FALSE, readAll |-> {}]

\* NewFileStore, NewGoogleBucketStore, NewAwsS3Store with requireIndex
Init ==
    /\ kind \in Kinds
    /\ backend \in InitBackends
    /\ ~BuildPanics(kind, backend)
    /\ \E built \in buildCacheAndIndex(kind, backend) :
          /\ tiddlerToFile = built.index
          /\ tiddlerCache = built.cache
    /\ last = NoCall
    /\ deleted = {}
    /\ deletedAlone = {}
    /\ calls = 0
    /\ BuildNotRunning
    /\ NotServing
    /\ OneCallerAtATime

SameFile(t1, t2) == CanonicalPath(t1) = CanonicalPath(t2)

\* the store holds the title: a GetTiddler of it would return a tiddler
Holds(title) ==
    getTiddlerFileFromStore(title, tiddlerToFile, tiddlerCache, backend).result = "ok"

\* s.WriteTiddler(t)
WriteTiddler ==
    /\ calls < MaxCalls
    /\ \E t \in InputTiddlers, fail \in WriterFailures(kind) :
       \E order \in Orders(t) :
       \E w \in {StoreWriteTiddler(kind, t, order, fail,
                                   tiddlerToFile, tiddlerCache, backend)} :
            /\ tiddlerToFile' = w.index
            /\ tiddlerCache' = w.cache
            /\ backend' = w.backend
            /\ last' = [NoCall EXCEPT !.op = "write", !.title = Field(t, TITLE), !.t = t,
                                      !.fail = fail, !.result = w.result,
                                      !.opened = w.opened, !.wrote = w.wrote,
                                      !.held = Holds(Field(t, TITLE))]
            /\ deleted' = deleted \ {Field(t, TITLE)}
            /\ deletedAlone' = {d \in deletedAlone : ~SameFile(d, Field(t, TITLE))}
    /\ calls' = calls + 1
    /\ UNCHANGED <<kind, serveVars, buildVars, concVars>>

\* s.DeleteTiddler(title)
DeleteTiddler ==
    /\ calls < MaxCalls
    /\ \E title \in Titles \cup {NoTitle}, fail \in {"none", "io"} :
       \E d \in {StoreDeleteTiddler(kind, title, fail,
                                    tiddlerToFile, tiddlerCache, backend)} :
            LET alone == \/ DeleteLocation(title, tiddlerToFile) = CanonicalPath(title)
                         \/ CanonicalPath(title) \notin DOMAIN backend
            IN  /\ tiddlerToFile' = d.index
                /\ tiddlerCache' = d.cache
                /\ backend' = d.backend
                /\ last' = [NoCall EXCEPT !.op = "delete", !.title = title,
                                          !.fail = fail, !.result = d.result]
                /\ deleted' = IF d.result = "ok" THEN deleted \cup {title} ELSE deleted
                /\ deletedAlone' = IF d.result = "ok" /\ alone
                                   THEN deletedAlone \cup {title} ELSE deletedAlone
    /\ calls' = calls + 1
    /\ UNCHANGED <<kind, serveVars, buildVars, concVars>>

\* s.GetTiddler(title)
GetTiddler ==
    /\ calls < MaxCalls
    /\ \E title \in Titles \cup {NoTitle} :
       \E g \in {getTiddlerFileFromStore(title, tiddlerToFile, tiddlerCache, backend)} :
            last' = [NoCall EXCEPT !.op = "get", !.title = title, !.result = g.result,
                                   !.reads = g.reads, !.ret = g.tid]
    /\ calls' = calls + 1
    /\ UNCHANGED <<kind, serveVars, backend, tiddlerToFile, tiddlerCache, deleted, deletedAlone>>
    /\ UNCHANGED <<buildVars, concVars>>

\* s.GetAllTiddlers()
GetAllTiddlers ==
    /\ calls < MaxCalls
    /\ \E g \in {getAllTiddlerFilesFromStore(walk(kind, backend), tiddlerCache, backend)} :
            last' = [NoCall EXCEPT !.op = "getall", !.result = g.result, !.all = g.all,
                                   !.walked = g.walked, !.readAll = g.readAll]
    /\ calls' = calls + 1
    /\ UNCHANGED <<kind, serveVars, backend, tiddlerToFile, tiddlerCache, deleted, deletedAlone>>
    /\ UNCHANGED <<buildVars, concVars>>

\* the PUT requests of the model, as <<name in the URL, decoded body>>: every
\* input tiddler under its own title (a body without a title under the empty
\* name), a body sent to another tiddler's name, and the story list
PutRequests ==
    {<<Field(b, TITLE), b>> : b \in InputTiddlers}
        \cup {<<TitleA, Tid2(TITLE, TitleB1, TEXT, Hello)>>,
              <<StoryList, Tid2(TITLE, StoryList, TEXT, Hello)>>}

\* PUT /recipes/{recipe}/tiddlers/{name} with a JSON body
PutTiddler ==
    /\ calls < MaxCalls
    /\ \E req \in PutRequests, fail \in WriterFailures(kind) :
       \E order \in Orders(PutRevised(req[1], req[2],
                                      tiddlerToFile, tiddlerCache, backend)) :
       \E w \in {putTiddler(kind, req[1], req[2], order, fail,
                            tiddlerToFile, tiddlerCache, backend)} :
            LET attempted == w.opened # <<>>
                title     == Field(req[2], TITLE)
            IN  /\ tiddlerToFile' = w.index
                /\ tiddlerCache' = w.cache
                /\ backend' = w.backend
                /\ last' = [NoCall EXCEPT !.op = "put", !.title = req[1], !.t = req[2],
                                          !.fail = fail, !.result = w.result,
                                          !.reads = w.reads, !.opened = w.opened,
                                          !.wrote = w.wrote, !.held = Holds(req[1])]
                /\ deleted' = IF attempted THEN deleted \ {title} ELSE deleted
                /\ deletedAlone' = IF attempted
                                   THEN {d \in deletedAlone : ~SameFile(d, title)}
                                   ELSE deletedAlone
    /\ calls' = calls + 1
    /\ UNCHANGED <<kind, serveVars, buildVars, concVars>>

Next == WriteTiddler \/ DeleteTiddler \/ GetTiddler \/ PutTiddler \/ GetAllTiddlers

Spec == Init /\ [][Next]_vars

\* ------------------------------------------------------------------------
\* buildCacheAndIndex, goroutine by goroutine
\* ------------------------------------------------------------------------

Workers == 1..MaxWorkers

IdleWorker == [st |-> "idle", path |-> <<>>, tid |-> EmptyTiddler]

\* a location that holds no tiddler file's bytes but a line without a colon
MalformedBytes == <<"h", "e", "l", "l", "o">>

MetaPath == Join(tiddlersDir, <<"y">> \o DotMeta)

\* the backends an index is built over: two and three files with distinct
\* titles; two files with one title; a good file next to a file without a
\* title, next to a .meta file whose content file is missing (its read
\* fails), and next to a file that cannot be parsed
BuildBackends ==
    LET tidA == Write(Tid2(TITLE, TitleA, TEXT, Hello), <<TITLE>>)
        tidB == Write(Tid2(TITLE, TitleB1, TEXT, Hello), <<TITLE>>)
        tidC == Write(Tid2(TITLE, TitleB2, TEXT, Hello2), <<TITLE>>)
        anon == Write(SetField(EmptyTiddler, TEXT, Hello), <<>>)
        meta == Write(Tid2(TITLE, <<"M">>, TYPE, <<"t">>), <<TITLE, TYPE>>)
        pA   == CanonicalPath(TitleA)
        pB   == CanonicalPath(TitleB1)
    IN  {[p \in {pA, pB} |-> IF p = pA THEN tidA ELSE tidB],
         [p \in {pA, pB, StrayPath} |-> IF p = pA THEN tidA ELSE IF p = pB THEN tidB ELSE tidC],
         [p \in {pA, StrayPath} |-> tidA],
         [p \in {pA, StrayPath} |-> IF p = pA THEN tidA ELSE anon],
         [p \in {pA, MetaPath} |-> IF p = pA THEN tidA ELSE meta],
         [p \in {pA, StrayPath} |-> IF p = pA THEN tidA ELSE MalformedBytes]}

\* the constructor calls buildCacheAndIndex(s.walk, s.newReader): empty maps,
\* an empty channel, the workers started, the walker about to enumerate
InitBuild ==
    /\ kind \in Kinds
    /\ backend \in BuildBackends
    /\ tiddlerToFile = << >>
    /\ tiddlerCache = << >>
    /\ last = NoCall
    /\ deleted = {}
    /\ deletedAlone = {}
    /\ calls = 0
    /\ bpc = "walk"
    /\ numWorkers \in Workers
    /\ paths = <<>>
    /\ walkLeft = walk(kind, backend)
    /\ worker = [w \in 1..numWorkers |-> IdleWorker]
    /\ tried = {}
    /\ listFails \in BOOLEAN
    /\ mu = 0
    /\ OneCallerAtATime
    /\ NotServing

\* the process is running: no goroutine has panicked
Running == bpc # "panicked"

\* a send that is dropped when the channel already holds a location
ChannelSendLossy(ch, p) == IF ch = <<>> THEN <<p>> ELSE ch

\* paths <- path
ChannelSend(ch, p) == Append(ch, p)

\* a wait that does not wait
WaitGroupSkipped(wk) == TRUE

\* wg.Wait() returns: every worker has called wg.Done()
WaitGroupDone(wk) == \A w \in DOMAIN wk : wk[w].st = "done"

\* a channel on which no send ever goes through
ChannelNeverHasRoom(ch, capacity) == FALSE

\* make(chan string, numWorkers): a send goes through while the buffer holds
\* fewer than its capacity
ChannelHasRoom(ch, capacity) == Len(ch) < capacity

\* the walker passes a location to its callback, which sends it to the
\* channel; the send blocks while the buffer of numWorkers is full.  The S3
\* walk has its whole listing before the first call, so it calls only when
\* the listing worked.
WalkSend ==
    /\ Running /\ bpc = "walk"
    /\ kind = "s3" => ~listFails
    /\ ChannelHasRoom(paths, numWorkers)
    /\ \E p \in walkLeft :
          /\ paths' = ChannelSend(paths, p)
          /\ walkLeft' = walkLeft \ {p}
    /\ UNCHANGED <<kind, serveVars, storeVars, ghostVars, concVars,
                   bpc, numWorkers, worker, tried, listFails, mu>>

\* the enumeration fails: fileStore.walk calls panic(err), the bucket walks
\* log at panic level, which panics (the S3 walk lists once, before any send)
WalkPanics ==
    /\ Running /\ bpc = "walk"
    /\ listFails
    /\ kind = "s3" => walkLeft = walk(kind, backend)
    /\ bpc' = "panicked"
    /\ UNCHANGED <<kind, serveVars, storeVars, ghostVars, concVars,
                   numWorkers, paths, walkLeft, worker, tried, listFails, mu>>

\* the walker returns nil; close(paths); err == nil
WalkReturns ==
    /\ Running /\ bpc = "walk"
    /\ ~listFails
    /\ walkLeft = {}
    /\ bpc' = "wait"
    /\ UNCHANGED <<kind, serveVars, storeVars, ghostVars, concVars,
                   numWorkers, paths, walkLeft, worker, tried, listFails, mu>>

\* a mutex that never makes a worker wait
MutexAlwaysFree(m) == TRUE

\* sync.Mutex: Lock returns when no goroutine holds the mutex
MutexFree(m) == m = 0

\* for path := range paths
WorkerReceives(w) ==
    /\ Running
    /\ worker[w].st = "idle"
    /\ paths # <<>>
    /\ worker' = [worker EXCEPT ![w] = [st |-> "read", path |-> Head(paths),
                                         tid |-> EmptyTiddler]]
    /\ paths' = Tail(paths)
    /\ UNCHANGED <<kind, serveVars, storeVars, ghostVars, concVars,
                   bpc, numWorkers, walkLeft, tried, listFails, mu>>

\* tiddler, err := readTiddlerFileWithReadCloser(path, reader); an error is
\* logged; without a title the worker goes back to the range loop
WorkerReads(w) ==
    /\ Running
    /\ worker[w].st = "read"
    /\ \E r \in {readTiddlerFileWithReadCloser(backend, worker[w].path)} :
          IF r.result = "panic"
          THEN /\ bpc' = "panicked"
               /\ UNCHANGED <<worker, tried>>
          ELSE IF r.result = "ok" /\ TITLE \in DOMAIN r.tid
          THEN /\ worker' = [worker EXCEPT ![w].st = "insert", ![w].tid = r.tid]
               /\ UNCHANGED <<bpc, tried>>
          ELSE /\ worker' = [worker EXCEPT ![w] = IdleWorker]
               /\ tried' = tried \cup {worker[w].path}
               /\ UNCHANGED bpc
    /\ UNCHANGED <<kind, serveVars, storeVars, ghostVars, concVars,
                   numWorkers, paths, walkLeft, listFails, mu>>

\* mu.Lock(): the worker goes on when the mutex is free, and holds it
WorkerLocks(w) ==
    /\ Running
    /\ worker[w].st = "insert"
    /\ MutexFree(mu)
    /\ mu' = w
    /\ worker' = [worker EXCEPT ![w].st = "index"]
    /\ UNCHANGED <<kind, serveVars, storeVars, ghostVars, concVars,
                   bpc, numWorkers, paths, walkLeft, tried, listFails>>

\* index[title] = path
WorkerSetsIndex(w) ==
    /\ Running
    /\ worker[w].st = "index"
    /\ tiddlerToFile' = MapSet(tiddlerToFile, worker[w].tid[TITLE], worker[w].path)
    /\ worker' = [worker EXCEPT ![w].st = "cache"]
    /\ UNCHANGED <<kind, serveVars, backend, tiddlerCache, ghostVars, concVars,
                   bpc, numWorkers, paths, walkLeft, tried, listFails, mu>>

\* cache[title] = tiddler
WorkerSetsCache(w) ==
    /\ Running
    /\ worker[w].st = "cache"
    /\ tiddlerCache' = MapSet(tiddlerCache, worker[w].tid[TITLE], worker[w].tid)
    /\ worker' = [worker EXCEPT ![w].st = "unlock"]
    /\ UNCHANGED <<kind, serveVars, backend, tiddlerToFile, ghostVars, concVars,
                   bpc, numWorkers, paths, walkLeft, tried, listFails, mu>>

\* mu.Unlock(), and back to the range loop
WorkerUnlocks(w) ==
    /\ Running
    /\ worker[w].st = "unlock"
    /\ mu' = 0
    /\ worker' = [worker EXCEPT ![w] = IdleWorker]
    /\ tried' = tried \cup {worker[w].path}
    /\ UNCHANGED <<kind, serveVars, storeVars, ghostVars, concVars,
                   bpc, numWorkers, paths, walkLeft, listFails>>

\* the range loop ends on the closed, drained channel; defer wg.Done()
WorkerExits(w) ==
    /\ Running
    /\ worker[w].st = "idle"
    /\ paths = <<>>
    /\ bpc = "wait"
    /\ worker' = [worker EXCEPT ![w].st = "done"]
    /\ UNCHANGED <<kind, serveVars, storeVars, ghostVars, concVars,
                   bpc, numWorkers, paths, walkLeft, tried, listFails, mu>>

\* wg.Wait(); return index, cache, nil
BuildReturns ==
    /\ Running /\ bpc = "wait"
    /\ WaitGroupDone(worker)
    /\ bpc' = "returned"
    /\ UNCHANGED <<kind, serveVars, storeVars, ghostVars, concVars,
                   numWorkers, paths, walkLeft, worker, tried, listFails, mu>>

NextBuild ==
    \/ WalkSend
    \/ WalkPanics
    \/ WalkReturns
    \/ \E w \in DOMAIN worker : WorkerReceives(w)
    \/ \E w \in DOMAIN worker : WorkerReads(w)
    \/ \E w \in DOMAIN worker : WorkerLocks(w)
    \/ \E w \in DOMAIN worker : WorkerSetsIndex(w)
    \/ \E w \in DOMAIN worker : WorkerSetsCache(w)
    \/ \E w \in DOMAIN worker : WorkerUnlocks(w)
    \/ \E w \in DOMAIN worker : WorkerExits(w)
    \/ BuildReturns

SpecBuild == InitBuild /\ [][NextBuild]_vars

\* the steps of a build other than a worker's read
NextBuildButRead ==
    \/ WalkSend
    \/ WalkPanics
    \/ WalkReturns
    \/ \E w \in DOMAIN worker : WorkerReceives(w)
    \/ \E w \in DOMAIN worker : WorkerLocks(w)
    \/ \E w \in DOMAIN worker : WorkerSetsIndex(w)
    \/ \E w \in DOMAIN worker : WorkerSetsCache(w)
    \/ \E w \in DOMAIN worker : WorkerUnlocks(w)
    \/ \E w \in DOMAIN worker : WorkerExits(w)
    \/ BuildReturns

\* a worker is at its read, which returns (the guard of WorkerReads)
SomeWorkerAtRead == Running /\ \E w \in DOMAIN worker : worker[w].st = "read"

\* the Go scheduler runs a goroutine that can take a step, and a backend
\* read that was started returns
SpecBuildFair ==
    /\ SpecBuild
    /\ WF_vars(NextBuildButRead)
    /\ []<>(~SomeWorkerAtRead) \/ []<><<\E w \in DOMAIN worker : WorkerReads(w)>>_vars

\* ------------------------------------------------------------------------
\* callers on one store, statement by statement
\* ------------------------------------------------------------------------

\* net/http serves every request on a goroutine of its own, and the handlers
\* call the store's methods without any lock: two callers
Callers == {1, 2}

\* a caller that is in no method of the store
IdleCaller ==
    [op |-> "none", pc |-> "idle", title |-> <<>>, t |-> EmptyTiddler, buf |-> <<>>,
     path |-> <<>>, inIndex |-> FALSE, inCache |-> FALSE, result |-> "ok"]

ConcTitles == {TitleA, TitleB1}

\* a store built over an empty directory or over A's file, with idle callers
InitConc ==
    /\ kind \in Kinds
    /\ backend \in {<< >>,
                    (CanonicalPath(TitleA)
                        :> Write(Tid2(TITLE, TitleA, TEXT, Hello), <<TITLE>>))}
    /\ \E built \in buildCacheAndIndex(kind, backend) :
          /\ tiddlerToFile = built.index
          /\ tiddlerCache = built.cache
    /\ last = NoCall
    /\ deleted = {}
    /\ deletedAlone = {}
    /\ calls = 0
    /\ BuildNotRunning
    /\ NotServing
    /\ caller = [c \in Callers |-> IdleCaller]
    /\ crashed = FALSE

\* the map the caller's next statement accesses, and whether it writes it
NextAccess(c) ==
    LET op == caller[c].op
        pc == caller[c].pc
    IN  IF op = "write" /\ pc = "index" THEN [map |-> "index", write |-> TRUE]
        ELSE IF op = "write" /\ pc = "cache" THEN [map |-> "cache", write |-> TRUE]
        ELSE IF op = "delete" /\ pc = "remove" THEN [map |-> "index", write |-> FALSE]
        ELSE IF op = "delete" /\ pc = "index" THEN [map |-> "index", write |-> TRUE]
        ELSE IF op = "delete" /\ pc = "cache" THEN [map |-> "cache", write |-> TRUE]
        ELSE IF op = "get" /\ pc = "index" THEN [map |-> "index", write |-> FALSE]
        ELSE IF op = "get" /\ pc = "cache" THEN [map |-> "cache", write |-> FALSE]
        ELSE [map |-> "none", write |-> FALSE]

\* two callers are about to access one map with no ordering between them, and
\* one of them writes it
Racing(c, d) ==
    /\ c # d
    /\ NextAccess(c).map # "none"
    /\ NextAccess(c).map = NextAccess(d).map
    /\ NextAccess(c).write \/ NextAccess(d).write

\* the caller is between the first and the last map access of its call
InMaps(c) ==
    \/ caller[c].op = "write" /\ caller[c].pc = "cache"
    \/ caller[c].op = "delete" /\ caller[c].pc \in {"index", "cache"}
    \/ caller[c].op = "get" /\ caller[c].pc = "cache"

Step(c, pc) == ~crashed /\ caller[c].pc = pc

\* a request arrives: s.WriteTiddler(t), s.DeleteTiddler(title) or
\* s.GetTiddler(title) is called on the request's goroutine
Call(c) ==
    /\ Step(c, "idle")
    /\ calls < MaxCalls
    /\ \/ \E title \in ConcTitles :
          \E order \in Orders(Tid2(TITLE, title, TEXT, Hello)) :
             caller' = [caller EXCEPT ![c] =
                          [IdleCaller EXCEPT !.op = "write", !.pc = "open",
                               !.title = title,
                               !.t = Tid2(TITLE, title, TEXT, Hello),
                               !.buf = Write(Tid2(TITLE, title, TEXT, Hello), order),
                               !.path = CanonicalPath(title)]]
       \/ \E title \in ConcTitles :
             caller' = [caller EXCEPT ![c] =
                          [IdleCaller EXCEPT !.op = "delete", !.pc = "remove",
                                             !.title = title]]
       \/ \E title \in ConcTitles :
             caller' = [caller EXCEPT ![c] =
                          [IdleCaller EXCEPT !.op = "get", !.pc = "index",
                                             !.title = title]]
    /\ calls' = calls + 1
    /\ UNCHANGED <<kind, serveVars, storeVars, last, deleted, deletedAlone, buildVars, crashed>>

\* w, err := writer(path): os.Create truncates the file
WriteOpens(c) ==
    /\ Step(c, "open")
    /\ caller[c].op = "write"
    /\ backend' = IF kind = "file" THEN MapSet(backend, caller[c].path, <<>>)
                  ELSE backend
    /\ caller' = [caller EXCEPT ![c].pc = "store"]
    /\ UNCHANGED <<kind, serveVars, tiddlerToFile, tiddlerCache, ghostVars, buildVars, crashed>>

\* tfile.Write(w): the file is written, the S3 object is put; the Google
\* bucket writer only buffers
WriteStores(c) ==
    /\ Step(c, "store")
    /\ backend' = IF kind = "gs" THEN backend
                  ELSE MapSet(backend, caller[c].path, caller[c].buf)
    /\ caller' = [caller EXCEPT ![c].pc = "index"]
    /\ UNCHANGED <<kind, serveVars, tiddlerToFile, tiddlerCache, ghostVars, buildVars, crashed>>

\* (*index)[title] = path
WriteIndexes(c) ==
    /\ Step(c, "index")
    /\ caller[c].op = "write"
    /\ tiddlerToFile' = MapSet(tiddlerToFile, caller[c].title, caller[c].path)
    /\ caller' = [caller EXCEPT ![c].pc = "cache"]
    /\ UNCHANGED <<kind, serveVars, backend, tiddlerCache, ghostVars, buildVars, crashed>>

\* (*cache)[title] = t
WriteCaches(c) ==
    /\ Step(c, "cache")
    /\ caller[c].op = "write"
    /\ tiddlerCache' = MapSet(tiddlerCache, caller[c].title, caller[c].t)
    /\ caller' = [caller EXCEPT ![c].pc = "close"]
    /\ UNCHANGED <<kind, serveVars, backend, tiddlerToFile, ghostVars, buildVars, crashed>>

\* return err, running the deferred w.Close(): the Google bucket writer
\* commits the object
WriteCloses(c) ==
    /\ Step(c, "close")
    /\ backend' = IF kind = "gs"
                  THEN MapSet(backend, caller[c].path, caller[c].buf)
                  ELSE backend
    /\ caller' = [caller EXCEPT ![c] = IdleCaller]
    /\ UNCHANGED <<kind, serveVars, tiddlerToFile, tiddlerCache, ghostVars, buildVars, crashed>>

\* os.Remove(s.tiddlerToFile[title]) and its bucket counterparts; an error
\* returns at once
DeleteRemoves(c) ==
    /\ Step(c, "remove")
    /\ LET path == DeleteLocation(caller[c].title, tiddlerToFile)
       IN  IF removeFails(kind, backend, path, "none")
           THEN /\ caller' = [caller EXCEPT ![c] = IdleCaller]
                /\ backend' = backend
           ELSE /\ caller' = [caller EXCEPT ![c].pc = "index", ![c].path = path]
                /\ backend' = MapDelete(backend, path)
    /\ UNCHANGED <<kind, serveVars, tiddlerToFile, tiddlerCache, ghostVars, buildVars, crashed>>

\* delete(s.tiddlerToFile, title)
DeleteIndexes(c) ==
    /\ Step(c, "index")
    /\ caller[c].op = "delete"
    /\ tiddlerToFile' = MapDelete(tiddlerToFile, caller[c].title)
    /\ caller' = [caller EXCEPT ![c].pc = "cache"]
    /\ UNCHANGED <<kind, serveVars, backend, tiddlerCache, ghostVars, buildVars, crashed>>

\* delete(s.tiddlerCache, title); return nil
DeleteCaches(c) ==
    /\ Step(c, "cache")
    /\ caller[c].op = "delete"
    /\ tiddlerCache' = MapDelete(tiddlerCache, caller[c].title)
    /\ caller' = [caller EXCEPT ![c] = IdleCaller]
    /\ UNCHANGED <<kind, serveVars, backend, tiddlerToFile, ghostVars, buildVars, crashed>>

\* filename, ok := index[title], with the generated filename when !ok.
\* inIndex records whether the reader found the title in the Index.
GetReadsIndex(c) ==
    /\ Step(c, "index")
    /\ caller[c].op = "get"
    /\ caller' = [caller EXCEPT ![c].pc = "cache",
                                ![c].path = ResolveFilename(caller[c].title, tiddlerToFile),
                                ![c].inIndex = caller[c].title \in DOMAIN tiddlerToFile]
    /\ UNCHANGED <<kind, serveVars, storeVars, ghostVars, buildVars, crashed>>

\* tiddler, ok := cache[filename]; return on a hit.  inCache records whether
\* the Cache held the title when the reader looked into it.
GetReadsCache(c) ==
    /\ Step(c, "cache")
    /\ caller[c].op = "get"
    /\ caller' = [caller EXCEPT
                    ![c].pc = IF CacheKey(caller[c].title, caller[c].path)
                                    \in DOMAIN tiddlerCache
                              THEN "got" ELSE "read",
                    ![c].inCache = caller[c].title \in DOMAIN tiddlerCache]
    /\ UNCHANGED <<kind, serveVars, storeVars, ghostVars, buildVars, crashed>>

\* return readTiddlerFileWithReadCloser(filename, reader)
GetReadsBackend(c) ==
    /\ Step(c, "read")
    /\ caller' = [caller EXCEPT
                    ![c].pc = "got",
                    ![c].result = readTiddlerFileWithReadCloser(backend,
                                                                caller[c].path).result]
    /\ UNCHANGED <<kind, serveVars, storeVars, ghostVars, buildVars, crashed>>

\* the caller of GetTiddler has its answer
GetReturns(c) ==
    /\ Step(c, "got")
    /\ caller' = [caller EXCEPT ![c] = IdleCaller]
    /\ UNCHANGED <<kind, serveVars, storeVars, ghostVars, buildVars, crashed>>

\* two goroutines access a map at once and one of them writes it: the runtime
\* may detect it and end the process ("fatal error: concurrent map writes",
\* "concurrent map read and map write"), or the accesses may go through in
\* either order, which is what the other actions do
ConcCrash ==
    /\ ~crashed
    /\ \E c, d \in Callers : Racing(c, d)
    /\ crashed' = TRUE
    /\ UNCHANGED <<kind, serveVars, storeVars, ghostVars, buildVars, caller>>

NextConc ==
    \/ \E c \in Callers : Call(c)
    \/ \E c \in Callers : WriteOpens(c)
    \/ \E c \in Callers : WriteStores(c)
    \/ \E c \in Callers : WriteIndexes(c)
    \/ \E c \in Callers : WriteCaches(c)
    \/ \E c \in Callers : WriteCloses(c)
    \/ \E c \in Callers : DeleteRemoves(c)
    \/ \E c \in Callers : DeleteIndexes(c)
    \/ \E c \in Callers : DeleteCaches(c)
    \/ \E c \in Callers : GetReadsIndex(c)
    \/ \E c \in Callers : GetReadsCache(c)
    \/ \E c \in Callers : GetReadsBackend(c)
    \/ \E c \in Callers : GetReturns(c)
    \/ ConcCrash

SpecConc == InitConc /\ [][NextConc]_vars

\* ------------------------------------------------------------------------
\* the line encoding, the title peek and the sidecar read, call by call
\* ------------------------------------------------------------------------

\* a custom field
NOTE == <<"n", "o", "t", "e">>

\* every tiddler of ts, and every one of them with the field set to a value
WithField(ts, name, values) == ts \cup {SetField(t, name, v) : t \in ts, v \in values}

\* the tiddlers handed to Write: string values, some with a space in front,
\* a line break inside, or empty
CodecTiddlers ==
    WithField(
      WithField(
        WithField(
          WithField({EmptyTiddler}, TITLE, {TitleA, <<" ">> \o TitleA}),
          TEXT, {Hello, <<NL>> \o Hello}),
        REVISION, {<<"1">>}),
      NOTE, {<<"x">>, <<"a", NL, "b">>, <<>>})

\* what a reader handed to Read or to getTiddlerFileTile yields
CodecInputs ==
    {<<>>,
     <<NL>>,
     Hello,
     TitleColon \o <<" ", "F", "o", "o", NL>>,
     TitleColon \o <<" ", "F", "o", "o">>,
     TitleColon \o <<NL>>,
     TitleColon \o <<" ", " ", NL>> \o TitleColon \o <<"B", NL>>,
     NOTE \o <<":", "x", NL>> \o TitleColon \o <<" ", " ", "B", "a", "r", " ", NL>>
          \o REVISION \o <<":", " ", "2", NL, NL>> \o Hello,
     NOTE \o <<":", " ", "x", NL, NL>> \o TitleColon \o <<" ", "X", NL>>
          \o REVISION \o <<":", " ", "5", NL>>,
     NOTE \o <<":", " ", "x", NL, " ", NL>> \o TitleColon \o <<" ", "X", NL>>,
     REVISION \o <<":", NL>>,
     REVISION \o <<":", " ", "5", NL, NL>> \o Hello,
     <<" ">> \o REVISION \o <<":", " ", "5", NL>>,
     <<"t", "i", "t", "l", "e", "s", ":", " ", "T", NL>>}

\* the location a sidecar describes: the .meta location without its suffix
ContentPath == TrimSuffix(MetaPath, DotMeta)

ImagePng == <<"i", "m", "a", "g", "e", "/", "p", "n", "g">>
TextPlain == <<"t", "e", "x", "t", "/", "p", "l", "a", "i", "n">>
ApplicationPdfx == <<"a", "p", "p", "l", "i", "c", "a", "t", "i", "o", "n", "/", "p", "d", "f", "x">>
RawBytes == <<"P", "N", "G", NL, NL, "x">>

\* a .meta file of a given header, with and without the file it describes
SidecarBackends ==
    LET metas == {TitleColon \o <<" ", "Y", NL>> \o TYPE \o <<":", " ">> \o ty \o <<NL>> :
                     ty \in {ImagePng, TextPlain, ApplicationPdfx}}
                 \cup {TitleColon \o <<" ", "Y", NL>>}
    IN  {(MetaPath :> m) @@ (ContentPath :> RawBytes) : m \in metas}
            \cup {(MetaPath :> m) : m \in metas}

\* a tiddler about to be encoded, a reader about to be decoded or peeked (nil
\* or yielding bytes), or a sidecar about to be read
InitCodec ==
    /\ kind = "file"
    /\ tiddlerToFile = << >>
    /\ tiddlerCache = << >>
    /\ \/ /\ backend = << >>
          /\ \/ \E t \in CodecTiddlers : last = [NoCall EXCEPT !.op = "tiddler", !.t = t]
             \/ \E b \in CodecInputs : last = [NoCall EXCEPT !.op = "reader", !.wrote = b]
             \/ last = [NoCall EXCEPT !.op = "reader", !.fail = "nil"]
       \/ /\ backend \in SidecarBackends
          /\ last = [NoCall EXCEPT !.op = "location"]
    /\ deleted = {}
    /\ deletedAlone = {}
    /\ calls = 0
    /\ BuildNotRunning
    /\ NotServing
    /\ OneCallerAtATime

\* tfile.Write(w) for a writer that takes the bytes
TiddlerFileWrite ==
    /\ last.op = "tiddler"
    /\ \E order \in Orders(last.t) :
          last' = [last EXCEPT !.op = "written", !.wrote = Write(last.t, order)]
    /\ UNCHANGED <<kind, serveVars, storeVars, deleted, deletedAlone, calls, buildVars, concVars>>

\* tfile.Read(r) on what was written, or on a reader
TiddlerFileRead ==
    /\ last.op \in {"written", "reader"}
    /\ last' = IF last.fail = "nil"
               THEN [last EXCEPT !.op = "read", !.result = "err"]
               ELSE [last EXCEPT !.op = "read",
                                 !.result = IF Read(last.wrote).panic THEN "panic" ELSE "ok",
                                 !.ret = Read(last.wrote).tid]
    /\ UNCHANGED <<kind, serveVars, storeVars, deleted, deletedAlone, calls, buildVars, concVars>>

\* getTiddlerFileTile(f) on what was written, or on a reader
PeekTitle ==
    /\ last.op \in {"written", "reader"}
    /\ \E g \in {getTiddlerFileTile(last.fail = "nil", last.wrote)} :
          last' = [last EXCEPT !.op = "peeked", !.result = g.result, !.title = g.title]
    /\ UNCHANGED <<kind, serveVars, storeVars, deleted, deletedAlone, calls, buildVars, concVars>>

\* readTiddlerFileWithReadCloser(path, reader) for the .meta location
ReadLocation ==
    /\ last.op = "location"
    /\ \E r \in {readTiddlerFileWithReadCloser(backend, MetaPath)} :
          last' = [last EXCEPT !.op = "located", !.result = r.result,
                               !.ret = r.tid, !.reads = r.reads]
    /\ UNCHANGED <<kind, serveVars, storeVars, deleted, deletedAlone, calls, buildVars, concVars>>

NextCodec == TiddlerFileWrite \/ TiddlerFileRead \/ PeekTitle \/ ReadLocation

SpecCodec == InitCodec /\ [][NextCodec]_vars

\* ------------------------------------------------------------------------
\* the HTTP server: the authentication middleware in front of the handlers
\* ------------------------------------------------------------------------

Bob == <<"b", "o", "b">>
Eve == <<"e", "v", "e">>
GoodPassword == <<"p", "w">>
BadPassword == <<"x">>

\* what creds() can return: with and without a credentials file, Readers and
\* Writers nil ("(anon)"), empty ("(authenticated)" without users) or a list
CredentialsConfigs ==
    {[pw |-> p, Readers |-> r, Writers |-> w] :
        p \in {<< >>, (Bob :> GoodPassword)},
        r \in {NilSlice, Slice({}), Slice({Bob})},
        w \in {NilSlice, Slice({}), Slice({Bob}), Slice({Eve})}}

\* the requests for a path: without an Authorization header, and with a pair
Requests(path) ==
    {[NoRequest EXCEPT !.path = path]}
        \cup {[hasBasic |-> TRUE, user |-> u, pass |-> p, path |-> path] :
                 u \in {Bob, Eve}, p \in {GoodPassword, BadPassword}}

\* ListenAndServe: one wiki "w" over a store, and the credentials
InitServe ==
    /\ kind \in Kinds
    /\ backend \in {<< >>,
                    (CanonicalPath(TitleA)
                        :> Write(Tid2(TITLE, TitleA, TEXT, Hello), <<TITLE>>))}
    /\ \E built \in buildCacheAndIndex(kind, backend) :
          /\ tiddlerToFile = built.index
          /\ tiddlerCache = built.cache
    /\ last = NoCall
    /\ deleted = {}
    /\ deletedAlone = {}
    /\ calls = 0
    /\ BuildNotRunning
    /\ OneCallerAtATime
    /\ creds \in CredentialsConfigs
    /\ auth = NoAuth
    /\ handlerMap = {"w"}
    /\ NoHandlerRequests
    /\ folders = << >>

\* GET /login-basic or GET /w/status: the middleware, then a handler that
\* leaves the store alone (status reports read_only = !auth.WritingAllowed)
ServeGet ==
    /\ calls < MaxCalls
    /\ \E path \in {"/login-basic", "/w/status"} :
       \E req \in Requests(path) :
       \E a \in {basicAuthCtx(creds, req)} :
          auth' = [served |-> "get", req |-> req, ok |-> a.ok, ctx |-> a.ctx]
    /\ calls' = calls + 1
    /\ UNCHANGED <<kind, storeVars, last, deleted, deletedAlone, buildVars, concVars,
                   creds, handlerMap, folders, handlerVars>>

\* PUT /w/recipes/r/tiddlers/A: the middleware answers 401 when basicAuthCtx
\* says !ok, and calls putTiddler otherwise
ServePutTiddler ==
    /\ calls < MaxCalls
    /\ \E req \in Requests("/w/recipes/r/tiddlers/A") :
       \E a \in {basicAuthCtx(creds, req)} :
       \E body \in {Tid2(TITLE, TitleA, TEXT, Hello2)} :
       \E order \in Orders(PutRevised(TitleA, body, tiddlerToFile, tiddlerCache, backend)) :
       \E w \in {putTiddler(kind, TitleA, body, order, "none",
                            tiddlerToFile, tiddlerCache, backend)} :
          /\ auth' = [served |-> "put", req |-> req, ok |-> a.ok, ctx |-> a.ctx]
          /\ tiddlerToFile' = IF a.ok THEN w.index ELSE tiddlerToFile
          /\ tiddlerCache' = IF a.ok THEN w.cache ELSE tiddlerCache
          /\ backend' = IF a.ok THEN w.backend ELSE backend
    /\ calls' = calls + 1
    /\ UNCHANGED <<kind, last, deleted, deletedAlone, buildVars, concVars,
                   creds, handlerMap, folders, handlerVars>>

\* DELETE /w/bags/b/tiddlers/A: the middleware, then deleteTiddler, which
\* calls h.Store.DeleteTiddler(tiddlerName)
ServeDeleteTiddler ==
    /\ calls < MaxCalls
    /\ \E req \in Requests("/w/bags/b/tiddlers/A") :
       \E a \in {basicAuthCtx(creds, req)} :
       \E d \in {StoreDeleteTiddler(kind, TitleA, "none",
                                    tiddlerToFile, tiddlerCache, backend)} :
          /\ auth' = [served |-> "delete", req |-> req, ok |-> a.ok, ctx |-> a.ctx]
          /\ tiddlerToFile' = IF a.ok THEN d.index ELSE tiddlerToFile
          /\ tiddlerCache' = IF a.ok THEN d.cache ELSE tiddlerCache
          /\ backend' = IF a.ok THEN d.backend ELSE backend
    /\ calls' = calls + 1
    /\ UNCHANGED <<kind, last, deleted, deletedAlone, buildVars, concVars,
                   creds, handlerMap, folders, handlerVars>>

NextServe == ServeGet \/ ServePutTiddler \/ ServeDeleteTiddler

SpecServe == InitServe /\ [][NextServe]_vars

\* ------------------------------------------------------------------------
\* one wiki's handlerWithStore: its caches, and the requests that use them
\* ------------------------------------------------------------------------

BAG == <<"b", "a", "g">>
TAGS == <<"t", "a", "g", "s">>

\* bag = "default"
bag == <<"d", "e", "f", "a", "u", "l", "t">>

\* the title prefix of a system tiddler
SystemPrefix == <<"$", ":", "/">>

MacroTag == <<"$", ":", "/", "t", "a", "g", "s", "/", "M", "a", "c", "r", "o">>

\* strings.Contains
Contains(s, sub) ==
    \E i \in 1..(Len(s) - Len(sub) + 1) : SubSeq(s, i, i + Len(sub) - 1) = sub

\* the icon Test_handlerWithStore_resetCaches puts in the favicon cache
Icon == <<"i", "c", "o", "n">>

\* bytes.NewBuffer(b)
NewBuffer(b) == [isNil |-> FALSE, bytes |-> b]

\* the index page: the lines of index.html around the JSON of the tiddlers
\* (as a set: GetAllTiddlers ranges over a map); the tiddlers of the model
\* have no RawMarkup tag, so the raw markup sections stay empty
Page(tids) == <<tids>>

\* getIndexCache, getFaviconCache: "" or nil from a nil buffer
BufferBytes(b) == IF b.isNil THEN <<>> ELSE b.bytes

\* a reset that leaves the skinny list as it is
resetCachesKeepsSkinny(ic, fc, sc) ==
    [indexCache |-> IF ic.isNil THEN ic ELSE [ic EXCEPT !.bytes = <<>>],
     faviconCache |-> IF fc.isNil THEN fc ELSE [fc EXCEPT !.bytes = <<>>],
     skinnyListCache |-> sc]

\* handlerWithStore.resetCaches, at its return: each buffer that is not nil is
\* Reset(), a skinny list that is not nil becomes make([]Tiddler, 0); the
\* locks it takes are held until it returns
resetCaches(ic, fc, sc) ==
    [indexCache |-> IF ic.isNil THEN ic ELSE [ic EXCEPT !.bytes = <<>>],
     faviconCache |-> IF fc.isNil THEN fc ELSE [fc EXCEPT !.bytes = <<>>],
     skinnyListCache |-> IF sc.isNil THEN sc ELSE [isNil |-> FALSE, list |-> {}]]

\* index: if _, ok := tid["bag"]; !ok { tids[i]["bag"] = bag } (string tags
\* stay as they are)
WithBag(t) == IF BAG \in DOMAIN t THEN t ELSE SetField(t, BAG, bag)

\* the tiddlers index encodes in the page
IndexTiddlers(all) == {WithBag(all[k]) : k \in DOMAIN all}

\* the store's Cache after index went over the tiddlers GetAllTiddlers handed
\* it: with a Cache that is not empty these are the maps the Cache holds
IndexLeavesCache(cache) == [t \in DOMAIN cache |-> WithBag(cache[t])]

\* getSkinnyTiddlerList: a copy of the tiddler, field by field, without its
\* text unless its tags name a macro
SkinnyTid(t) ==
    LET keeptext == TAGS \in DOMAIN t /\ Contains(t[TAGS], MacroTag)
    IN  [f \in {k \in DOMAIN t : k # TEXT \/ keeptext} |-> t[f]]

\* the skinny list: system tiddlers are left out
SkinnyList(all) ==
    {SkinnyTid(all[k]) : k \in {j \in DOMAIN all : ~HasPrefix(all[j][TITLE], SystemPrefix)}}

\* what a handler makes of the tiddlers GetAllTiddlers returns
Rendered(op, all) == IF op = "index" THEN IndexTiddlers(all) ELSE SkinnyList(all)

\* what the handler's cache holds for a request: nothing when it is empty
CacheHit(op, ic, sc) ==
    IF op = "index"
    THEN IF Len(BufferBytes(ic)) <= 0 THEN [hit |-> FALSE, resp |-> {}]
         ELSE [hit |-> TRUE, resp |-> BufferBytes(ic)[1]]
    ELSE IF Cardinality(sc.list) <= 0 THEN [hit |-> FALSE, resp |-> {}]
         ELSE [hit |-> TRUE, resp |-> sc.list]

\* the PUT requests of the model: name and decoded body
HandlerPuts ==
    {<<TitleA, Tid2(TITLE, TitleA, TEXT, Hello2)>>,
     <<TitleB1, Tid2(TITLE, TitleB1, TEXT, Hello)>>,
     <<TitleA, Tid3(TITLE, TitleA, TEXT, Hello, TAGS, MacroTag)>>}

\* a handler over a file store built with requireIndex (the handler is the
\* same over every store); the caches are nil, or the favicon cache holds an
\* icon as in Test_handlerWithStore_resetCaches
InitHandler ==
    /\ kind = "file"
    /\ backend \in {<< >>,
                    (CanonicalPath(TitleA)
                        :> Write(Tid2(TITLE, TitleA, TEXT, Hello), <<TITLE>>))}
    /\ \E built \in buildCacheAndIndex(kind, backend) :
          /\ tiddlerToFile = built.index
          /\ tiddlerCache = built.cache
    /\ last = NoCall
    /\ deleted = {}
    /\ deletedAlone = {}
    /\ calls = 0
    /\ BuildNotRunning
    /\ OneCallerAtATime
    /\ creds = NoCredentials
    /\ auth = NoAuth
    /\ handlerMap = {"w"}
    /\ folders = << >>
    /\ indexCache = NilBuffer
    /\ faviconCache \in {NilBuffer, NewBuffer(Icon)}
    /\ skinnyListCache = NilList
    /\ writer = NoWriter
    /\ reader = NoReader

\* the PUT and DELETE tiddler requests of the model
HandlerWrites ==
    {<<"put", req[1], req[2]>> : req \in HandlerPuts}
        \cup {<<"delete", name, EmptyTiddler>> : name \in {TitleA, TitleB1}}

\* putTiddler, deleteTiddler: h.resetCaches() as the handler's first statement
HandlerResets ==
    /\ writer.pc = "idle"
    /\ calls < MaxWrites
    /\ \E r \in {resetCaches(indexCache, faviconCache, skinnyListCache)} :
          /\ indexCache' = r.indexCache
          /\ faviconCache' = r.faviconCache
          /\ skinnyListCache' = r.skinnyListCache
    /\ \E req \in HandlerWrites :
          writer' = [pc |-> "store", op |-> req[1], name |-> req[2], body |-> req[3],
                     had |-> \/ Len(BufferBytes(indexCache)) > 0
                             \/ Len(BufferBytes(faviconCache)) > 0
                             \/ Cardinality(skinnyListCache.list) > 0]
    /\ reader' = [reader EXCEPT !.quiet = FALSE]
    /\ UNCHANGED <<kind, storeVars, ghostVars, buildVars, concVars,
                   creds, auth, handlerMap, folders>>

\* putTiddler after the reset: h.Store.GetTiddler, then h.Store.WriteTiddler
putTiddlerStores ==
    /\ writer.pc = "store" /\ writer.op = "put"
    /\ \E order \in Orders(PutRevised(writer.name, writer.body,
                                      tiddlerToFile, tiddlerCache, backend)) :
       \E w \in {putTiddler(kind, writer.name, writer.body, order, "none",
                            tiddlerToFile, tiddlerCache, backend)} :
            /\ tiddlerToFile' = w.index
            /\ tiddlerCache' = w.cache
            /\ backend' = w.backend
    /\ writer' = NoWriter
    /\ calls' = calls + 1
    /\ UNCHANGED <<kind, last, deleted, deletedAlone, buildVars, concVars,
                   creds, auth, handlerMap, folders,
                   indexCache, faviconCache, skinnyListCache, reader>>

\* deleteTiddler after the reset: h.Store.DeleteTiddler
deleteTiddlerStores ==
    /\ writer.pc = "store" /\ writer.op = "delete"
    /\ \E d \in {StoreDeleteTiddler(kind, writer.name, "none",
                                     tiddlerToFile, tiddlerCache, backend)} :
            /\ tiddlerToFile' = d.index
            /\ tiddlerCache' = d.cache
            /\ backend' = d.backend
    /\ writer' = NoWriter
    /\ calls' = calls + 1
    /\ UNCHANGED <<kind, last, deleted, deletedAlone, buildVars, concVars,
                   creds, auth, handlerMap, folders,
                   indexCache, faviconCache, skinnyListCache, reader>>

\* index, getSkinnyTiddlerList: the request arrives and the handler reads its
\* cache; what the cache holds is the response
GetReadsHandlerCache ==
    /\ reader.pc = "idle"
    /\ \E op \in {"index", "skinny"} :
       \E c \in {CacheHit(op, indexCache, skinnyListCache)} :
          reader' = [pc |-> IF c.hit THEN "respond" ELSE "list", op |-> op,
                     quiet |-> writer.pc = "idle", hit |-> c.hit, resp |-> c.resp]
    /\ UNCHANGED <<kind, storeVars, ghostVars, buildVars, concVars,
                   creds, auth, handlerMap, folders,
                   indexCache, faviconCache, skinnyListCache, writer>>

\* with an empty cache: h.Store.GetAllTiddlers(), and the loop over the
\* tiddlers, in which index writes the bag into the maps it was handed; a
\* panic in the listing ends the request
GetLists ==
    /\ reader.pc = "list"
    /\ \E g \in {getAllTiddlerFilesFromStore(walk(kind, backend), tiddlerCache, backend)} :
          IF g.result # "ok"
          THEN /\ reader' = NoReader
               /\ UNCHANGED tiddlerCache
          ELSE /\ reader' = [reader EXCEPT !.pc = "set", !.resp = Rendered(reader.op, g.all)]
               /\ tiddlerCache' = IF reader.op = "index" /\ ~g.walked
                                  THEN IndexLeavesCache(tiddlerCache)
                                  ELSE tiddlerCache
    /\ UNCHANGED <<kind, backend, tiddlerToFile, ghostVars, buildVars, concVars,
                   creds, auth, handlerMap, folders,
                   indexCache, faviconCache, skinnyListCache, writer>>

\* h.setIndexCache([]byte(page)), h.setSkinnyListCache(skinny)
GetSetsCache ==
    /\ reader.pc = "set"
    /\ IF reader.op = "index"
       THEN /\ indexCache' = NewBuffer(Page(reader.resp))
            /\ UNCHANGED skinnyListCache
       ELSE /\ skinnyListCache' = [isNil |-> FALSE, list |-> reader.resp]
            /\ UNCHANGED indexCache
    /\ reader' = [reader EXCEPT !.pc = "respond"]
    /\ UNCHANGED <<kind, storeVars, ghostVars, buildVars, concVars,
                   creds, auth, handlerMap, folders, faviconCache, writer>>

\* render.HTML(w, r, page), render.JSON(w, r, skinny)
GetResponds ==
    /\ reader.pc = "respond"
    /\ reader' = [reader EXCEPT !.pc = "idle"]
    /\ UNCHANGED <<kind, storeVars, ghostVars, buildVars, concVars,
                   creds, auth, handlerMap, folders,
                   indexCache, faviconCache, skinnyListCache, writer>>

NextHandler ==
    \/ HandlerResets
    \/ putTiddlerStores
    \/ deleteTiddlerStores
    \/ GetReadsHandlerCache
    \/ GetLists
    \/ GetSetsCache
    \/ GetResponds

SpecHandler == InitHandler /\ [][NextHandler]_vars

\* ------------------------------------------------------------------------
\* runs of WriteTiddler and DeleteTiddler calls that all succeed
\* ------------------------------------------------------------------------

\* s.WriteTiddler(t) of a tiddler with a title, with a writer that works
WriteTiddlerOk ==
    /\ calls < MaxOkCalls
    /\ \E t \in {i \in InputTiddlers : TITLE \in DOMAIN i} :
       \E order \in Orders(t) :
       \E w \in {StoreWriteTiddler(kind, t, order, "none",
                                   tiddlerToFile, tiddlerCache, backend)} :
            /\ w.result = "ok"
            /\ tiddlerToFile' = w.index
            /\ tiddlerCache' = w.cache
            /\ backend' = w.backend
            /\ last' = [NoCall EXCEPT !.op = "write", !.title = Field(t, TITLE), !.t = t,
                                      !.result = w.result,
                                      !.opened = w.opened, !.wrote = w.wrote]
    /\ calls' = calls + 1
    /\ UNCHANGED <<kind, serveVars, deleted, deletedAlone, buildVars, concVars>>

\* s.DeleteTiddler(title) that returns nil
DeleteTiddlerOk ==
    /\ calls < MaxOkCalls
    /\ \E title \in Titles :
       \E d \in {StoreDeleteTiddler(kind, title, "none",
                                    tiddlerToFile, tiddlerCache, backend)} :
            /\ d.result = "ok"
            /\ tiddlerToFile' = d.index
            /\ tiddlerCache' = d.cache
            /\ backend' = d.backend
            /\ last' = [NoCall EXCEPT !.op = "delete", !.title = title, !.result = d.result]
    /\ calls' = calls + 1
    /\ UNCHANGED <<kind, serveVars, deleted, deletedAlone, buildVars, concVars>>

NextOk == WriteTiddlerOk \/ DeleteTiddlerOk

SpecOk == Init /\ [][NextOk]_vars

\* ------------------------------------------------------------------------
\* the stores' walk on its own, with a callback that records its calls
\* ------------------------------------------------------------------------

\* keys of a bucket or files of a tree: tiddler files in the tiddlers
\* directory, another file there, and a tiddler file of another directory
WalkKeys ==
    {Join(tiddlersDir, <<c>> \o DotTid) : c \in {"a", "b", "c", "e", "f"}}
        \cup {Join(tiddlersDir, <<"n", ".", "t", "x", "t">>),
              Join(<<"a">>, <<"z">> \o DotTid)}

\* s.walk(f) is called on a store that holds any of these
InitWalk ==
    /\ kind \in Kinds
    /\ \E keys \in SUBSET WalkKeys : backend = [k \in keys |-> <<>>]
    /\ tiddlerToFile = << >>
    /\ tiddlerCache = << >>
    /\ last = NoCall
    /\ deleted = {}
    /\ deletedAlone = {}
    /\ calls = 0
    /\ bpc = "walk"
    /\ numWorkers = 1
    /\ paths = <<>>
    /\ walkLeft = walk(kind, backend)
    /\ worker = <<>>
    /\ tried = {}
    /\ listFails = FALSE
    /\ mu = 0
    /\ OneCallerAtATime
    /\ NotServing

\* f(path) for a location of the listing; paths is the record of the calls
WalkerCalls ==
    /\ bpc = "walk"
    /\ \E p \in walkLeft :
          /\ paths' = Append(paths, p)
          /\ walkLeft' = walkLeft \ {p}
    /\ UNCHANGED <<kind, serveVars, storeVars, ghostVars, concVars,
                   bpc, numWorkers, worker, tried, listFails, mu>>

\* the listing is used up: return nil
WalkerReturns ==
    /\ bpc = "walk"
    /\ walkLeft = {}
    /\ bpc' = "walked"
    /\ UNCHANGED <<kind, serveVars, storeVars, ghostVars, concVars,
                   numWorkers, paths, walkLeft, worker, tried, listFails, mu>>

NextWalk == WalkerCalls \/ WalkerReturns

SpecWalk == InitWalk /\ [][NextWalk]_vars

\* ------------------------------------------------------------------------
\* the landing page's handlers: deleteWiki and renameWiki
\* ------------------------------------------------------------------------

\* wikisPath = filepath.Join(storagePath, "wikis")
wikisPath == "wikis"

\* trashPath = filepath.Join(storagePath, "trash")
trashPath == "trash"

\* filepath.Join(wikisPath, wikiName): a folder of the server's storage
WikiFolder(parent, name) == <<parent, name>>

WikiNames == {"a", "b", "c"}

\* what a wiki folder holds: its tiddlers directory and its index page
WikiFiles == {"tiddlers", "index.html"}

\* CopyFolder of the three stores. fileStore calls CopyDir, which copies the
\* files of srcPath into targetPath and stops at the first error: copied is the
\* part of the source it got through, all of it when it returns nil.  The two
\* bucket stores return "not yet implemented" and copy nothing.
CopyFolder(k, fs, srcPath, targetPath, copied) ==
    IF k # "file" \/ srcPath \notin DOMAIN fs
    THEN [fs |-> fs, err |-> TRUE]
    ELSE [fs |-> IF copied = {} /\ fs[srcPath] # {} /\ targetPath \notin DOMAIN fs
                 THEN fs
                 ELSE MapSet(fs, targetPath,
                             (IF targetPath \in DOMAIN fs THEN fs[targetPath] ELSE {})
                                 \cup copied),
          err |-> copied # fs[srcPath]]

\* DeleteFolder of the three stores: os.RemoveAll(path) for fileStore, which
\* is nil too when path does not exist; "not yet implemented" for the buckets
DeleteFolder(k, fs, path) ==
    IF k = "file"
    THEN [fs |-> MapDelete(fs, path), err |-> FALSE]
    ELSE [fs |-> fs, err |-> TRUE]

\* handlerSelector.storeFunc(newWikiPath, true): NewFileStore walks the
\* folder's tiddlers directory and panics when it is not there; the bucket
\* constructors list a prefix, which may be empty
storeFunc(k, fs, wikiPath) ==
    k # "file" \/ (wikiPath \in DOMAIN fs /\ "tiddlers" \in fs[wikiPath])

\* what a handler did: the folders it was asked to move, what the source held
\* before, and what CopyFolder and DeleteFolder returned to it
WikiCall(op, fs, src, dst, copyErr, deleteErr) ==
    [op |-> op, src |-> src, dst |-> dst,
     had |-> src \in DOMAIN fs,
     content |-> IF src \in DOMAIN fs THEN fs[src] ELSE {},
     copyErr |-> copyErr, deleteErr |-> deleteErr]

\* the parts of a folder CopyDir may have got through when it returns
Copied(fs, src) == IF src \in DOMAIN fs THEN SUBSET fs[src] ELSE {{}}

\* a server started on a storage with two wikis
InitWiki ==
    /\ kind \in Kinds
    /\ backend = << >>
    /\ tiddlerToFile = << >>
    /\ tiddlerCache = << >>
    /\ last = NoCall
    /\ deleted = {}
    /\ deletedAlone = {}
    /\ calls = 0
    /\ BuildNotRunning
    /\ OneCallerAtATime
    /\ creds = NoCredentials
    /\ auth = NoAuth
    /\ handlerMap = {"a", "b"}
    /\ NoHandlerRequests
    /\ \E ca, cb \in {c \in SUBSET WikiFiles : "tiddlers" \in c} :
          folders = (WikiFolder(wikisPath, "a") :> ca) @@ (WikiFolder(wikisPath, "b") :> cb)

\* GET /deleteWiki?name=...
deleteWiki ==
    /\ \E wikiName \in WikiNames :
       \E wikiPath \in {WikiFolder(wikisPath, wikiName)} :
       \E target \in {WikiFolder(trashPath, wikiName)} :
       \E copied \in Copied(folders, wikiPath) :
       \E c \in {CopyFolder(kind, folders, wikiPath, target, copied)} :
       \E d \in {DeleteFolder(kind, c.fs, wikiPath)} :
          /\ folders' = d.fs
          /\ handlerMap' = handlerMap \ {wikiName}
          /\ last' = WikiCall("deleteWiki", folders, wikiPath, target, c.err, d.err)
    /\ UNCHANGED <<kind, storeVars, deleted, deletedAlone, calls, buildVars, concVars,
                   creds, auth, handlerVars>>

\* GET /renameWiki?currentName=...&newName=...
renameWiki ==
    /\ \E oldWikiName \in WikiNames, newWikiName \in WikiNames :
       \E oldWikiPath \in {WikiFolder(wikisPath, oldWikiName)} :
       \E newWikiPath \in {WikiFolder(wikisPath, newWikiName)} :
       \E copied \in Copied(folders, oldWikiPath) :
       \E c \in {CopyFolder(kind, folders, oldWikiPath, newWikiPath, copied)} :
       \E d \in {DeleteFolder(kind, c.fs, oldWikiPath)} :
          /\ oldWikiName # newWikiName
          /\ folders' = d.fs
          /\ handlerMap' = IF storeFunc(kind, d.fs, newWikiPath)
                           THEN (handlerMap \ {oldWikiName}) \cup {newWikiName}
                           ELSE handlerMap \ {oldWikiName}
          /\ last' = WikiCall("renameWiki", folders, oldWikiPath, newWikiPath, c.err, d.err)
    /\ UNCHANGED <<kind, storeVars, deleted, deletedAlone, calls, buildVars, concVars,
                   creds, auth, handlerVars>>

NextWiki == deleteWiki \/ renameWiki

SpecWiki == InitWiki /\ [][NextWiki]_vars

\* ------------------------------------------------------------------------
\* properties
\* ------------------------------------------------------------------------

\* C1: after construction and after every WriteTiddler, DeleteTiddler or PUT,
\* whether it succeeded or failed, the Index and the Cache hold the same titles.
C1_IndexCacheSameTitles == DOMAIN tiddlerToFile = DOMAIN tiddlerCache

\* a delete succeeded after an earlier call and the maps still hold a title
C1_Witness ==
    /\ last.op = "delete"
    /\ last.result = "ok"
    /\ calls = 2
    /\ DOMAIN tiddlerCache # {}

\* C2: a GetTiddler of a title the Cache holds calls the reader zero times, and
\* a GetTiddler of a title the Index holds and the Cache does not calls it once.
\* (GetTiddler leaves both maps as they were, so they are read after the call.)
C2_CacheFirstRead ==
    last.op = "get" =>
        /\ last.title \in DOMAIN tiddlerCache => last.reads = <<>>
        /\ last.title \in DOMAIN tiddlerToFile \ DOMAIN tiddlerCache
               => Len(last.reads) = 1

C4_FailedWriteLeavesMaps ==
    [][(last'.op = "write" /\ last'.fail # "none" /\ TITLE \in DOMAIN last'.t) =>
           /\ last'.result = "err"
           /\ tiddlerToFile' = tiddlerToFile
           /\ tiddlerCache' = tiddlerCache]_vars

\* C5: a WriteTiddler of a tiddler without a title field is rejected (an error,
\* or at least no success), stores nothing and adds no entry to either map.
C5_TitleRequired ==
    [][(last'.op = "write" /\ TITLE \notin DOMAIN last'.t) =>
           /\ last'.result # "ok"
           /\ backend' = backend
           /\ DOMAIN tiddlerToFile' = DOMAIN tiddlerToFile
           /\ DOMAIN tiddlerCache' = DOMAIN tiddlerCache]_vars

\* C6: on a store that did not hold title A, a Put of {title A, text hello}
\* that stored the record (through WriteTiddler or through the PUT handler),
\* followed by Get(A), returns a tiddler with title A, text hello and
\* revision "0".
C6_PutThenGet ==
    [][(/\ last.op \in {"write", "put"}
        /\ last.title = TitleA
        /\ last.t = Tid2(TITLE, TitleA, TEXT, Hello)
        /\ last.fail = "none"
        /\ last.result = "ok"
        /\ ~last.held
        /\ last'.op = "get"
        /\ last'.title = TitleA) =>
           /\ last'.result = "ok"
           /\ Field(last'.ret, TITLE) = TitleA
           /\ Field(last'.ret, TEXT) = Hello
           /\ Field(last'.ret, REVISION) = <<"0">>]_vars

\* Get(A) answered right after such a Put on a store built over an empty
\* backend, while the Cache holds A as it was put, without a revision field
C6_Witness ==
    /\ last.op = "get"
    /\ last.title = TitleA
    /\ last.result = "ok"
    /\ calls = 2
    /\ TitleA \in DOMAIN tiddlerCache
    /\ tiddlerCache[TitleA] = Tid2(TITLE, TitleA, TEXT, Hello)
    /\ tiddlerToFile[TitleA] = CanonicalPath(TitleA)
    /\ DOMAIN backend = {CanonicalPath(TitleA)}

\* C7: a PUT through putTiddler of a title the store holds stores the old
\* revision plus one: a Get of the title after the PUT returns it.
C7_PutIncrementsRevision ==
    [][(/\ last'.op = "put"
        /\ last'.fail = "none"
        /\ last'.result = "ok"
        /\ last'.held
        /\ last'.title = Field(last'.t, TITLE)) =>
           LET old == getTiddlerFileFromStore(last'.title, tiddlerToFile,
                                              tiddlerCache, backend)
               new == getTiddlerFileFromStore(last'.title, tiddlerToFile',
                                              tiddlerCache', backend')
           IN  /\ new.result = "ok"
               /\ Field(new.tid, REVISION)
                      = Itoa(Atoi(Field(old.tid, REVISION)) + 1)]_vars

\* C8: after a DeleteTiddler(title) that succeeded, and with no later write of
\* that title, GetTiddler(title) fails.
C8_DeletedIsGone ==
    (last.op = "get" /\ last.title \in deleted) => last.result = "err"

\* C8, amended: after a DeleteTiddler(title) that succeeded and removed the
\* object at the title's canonical location, or found no object there, and with
\* no later write of a title with that canonical location, GetTiddler(title)
\* fails.
C8_DeletedAloneIsGone ==
    (last.op = "get" /\ last.title \in deletedAlone) => last.result = "err"

\* Get failed for a title whose stored tiddler an earlier delete removed
C8_Witness ==
    /\ last.op = "get"
    /\ last.title = TitleA
    /\ last.title \in deletedAlone
    /\ last.result = "err"
    /\ backend # << >>

\* C9: DeleteTiddler returns success or an error; on success the title is in
\* neither map and the object it removed is gone; on an error both maps and the
\* backend are as before; it fails when the backend removal fails and succeeds
\* when the backend removes an object that exists.  On all three stores.
C9_DeleteUpdatesMapsIffRemoved ==
    [][last'.op = "delete" =>
           LET title == last'.title
               path  == DeleteLocation(title, tiddlerToFile)
           IN  /\ last'.result \in {"ok", "err"}
               /\ last'.result = "ok" =>
                      /\ title \notin DOMAIN tiddlerToFile'
                      /\ title \notin DOMAIN tiddlerCache'
                      /\ path \notin DOMAIN backend'
               /\ last'.result = "err" =>
                      /\ tiddlerToFile' = tiddlerToFile
                      /\ tiddlerCache' = tiddlerCache
                      /\ backend' = backend
               /\ last'.fail = "io" => last'.result = "err"
               /\ (last'.fail = "none" /\ path \in DOMAIN backend)
                      => last'.result = "ok"]_vars

\* the removal of an indexed, cached title failed on the S3 store
C9_Witness ==
    /\ last.op = "delete"
    /\ last.fail = "io"
    /\ last.result = "err"
    /\ kind = "s3"
    /\ last.title \in DOMAIN tiddlerToFile
    /\ last.title \in DOMAIN tiddlerCache

\* C10: DeleteTiddler(title) of a title the Index does not hold removes the
\* object at the title's canonical location, if one exists there, and succeeds.
C10_DeleteFallsBackToCanonical ==
    [][(/\ last'.op = "delete"
        /\ last'.fail = "none"
        /\ last'.title \notin DOMAIN tiddlerToFile
        /\ CanonicalPath(last'.title) \in DOMAIN backend) =>
           /\ last'.result = "ok"
           /\ CanonicalPath(last'.title) \notin DOMAIN backend']_vars


\* C11: tiddlerFilename replaces every '/', ':' and '"' of a title by '_' and
\* appends ".tid"; a GetTiddler(title) of a title that is in neither map calls
\* the reader once, for tiddlersDir joined with that file name, and returns the
\* tiddler parsed from the object there (an error when there is none).
C11_UnindexedGetReadsCanonical ==
    /\ tiddlerFilename(<<"a", "/", "b", ":", "c", "\"", "d">>)
           = <<"a", "_", "b", "_", "c", "_", "d", ".", "t", "i", "d">>
    /\ (/\ last.op = "get"
        /\ last.title \notin DOMAIN tiddlerToFile
        /\ last.title \notin DOMAIN tiddlerCache) =>
           LET title == last.title
               name  == [i \in 1..Len(title) |->
                            IF title[i] \in {"/", ":", "\""} THEN "_" ELSE title[i]]
               path  == tiddlersDir \o <<"/">> \o name \o <<".", "t", "i", "d">>
           IN  /\ last.reads = <<path>>
               /\ path \notin DOMAIN backend => last.result = "err"
               /\ (path \in DOMAIN backend /\ ~Read(backend[path]).panic) =>
                      /\ last.result = "ok"
                      /\ last.ret = Read(backend[path]).tid

\* B: is in neither map and GetTiddler returned what is stored in B_.tid
C11_Witness ==
    /\ last.op = "get"
    /\ last.title = TitleB2
    /\ TitleB2 \notin DOMAIN tiddlerToFile
    /\ last.result = "ok"
    /\ last.reads = <<CanonicalPath(TitleB1)>>
    /\ Field(last.ret, TEXT) = Hello


\* C12: a GetAllTiddlers on a store whose Cache is not empty returns the
\* Cache's tiddlers, one per cached title, and calls neither the walker nor
\* the reader.  (GetAllTiddlers leaves the Cache as it was.)
C12_ListFromCache ==
    (last.op = "getall" /\ DOMAIN tiddlerCache # {}) =>
        /\ last.result = "ok"
        /\ DOMAIN last.all = DOMAIN tiddlerCache
        /\ \A title \in DOMAIN tiddlerCache : last.all[title] = tiddlerCache[title]
        /\ ~last.walked
        /\ last.readAll = {}

\* a listing served from a Cache that holds two titles
C12_Witness ==
    /\ last.op = "getall"
    /\ last.result = "ok"
    /\ Cardinality(DOMAIN tiddlerCache) = 2
    /\ DOMAIN last.all = DOMAIN tiddlerCache

\* C13: a GetAllTiddlers on a store whose Cache is empty calls the walker and
\* leaves the Index, the Cache and the backend as they were; when it returns,
\* it has read every location the walk enumerates and returns the tiddler
\* parsed from each.
C13_ListByWalk ==
    [][(last'.op = "getall" /\ DOMAIN tiddlerCache = {}) =>
           /\ last'.walked
           /\ tiddlerToFile' = tiddlerToFile
           /\ tiddlerCache' = tiddlerCache
           /\ backend' = backend
           /\ last'.result = "ok" =>
                  /\ last'.readAll = walk(kind, backend)
                  /\ DOMAIN last'.all = walk(kind, backend)
                  /\ \A p \in walk(kind, backend) :
                         /\ ~Read(backend[p]).panic
                         /\ last'.all[p] = Read(backend[p]).tid]_vars

\* a listing of a store with an empty Cache returned the tiddler of a file
C13_Witness ==
    /\ last.op = "getall"
    /\ last.walked
    /\ last.result = "ok"
    /\ DOMAIN tiddlerCache = {}
    /\ DOMAIN last.all # {}

\* C17: a GetAllTiddlers that walks the backend returns, for every state of the
\* backend, the tiddlers of the enumerated locations that can be read and hold
\* a title; it does not crash on the others.
C17_ListSkipsBadLocations ==
    (last.op = "getall" /\ last.walked) =>
        /\ last.result = "ok"
        /\ DOMAIN last.all
               = {p \in walk(kind, backend) :
                     /\ readTiddlerFileWithReadCloser(backend, p).result = "ok"
                     /\ TITLE \in DOMAIN readTiddlerFileWithReadCloser(backend, p).tid}


\* C14: when every enumerated location can be read and holds a title that is
\* not empty and that no other location holds, buildCacheAndIndex returns an
\* Index and a Cache with one entry per location: Index[title] is the location
\* that holds the title and Cache[title] the tiddler parsed from it.  For every
\* interleaving of the workers and for pools smaller than, equal to and larger
\* than the number of locations.
C14_BuildIndexesEveryLocation ==
    LET locs == walk(kind, backend)
        tidAt(p) == readTiddlerFileWithReadCloser(backend, p).tid
        good == \A p \in locs :
                   /\ readTiddlerFileWithReadCloser(backend, p).result = "ok"
                   /\ TITLE \in DOMAIN tidAt(p)
                   /\ tidAt(p)[TITLE] # <<>>
                   /\ \A q \in locs \ {p} :
                          TITLE \in DOMAIN tidAt(q) => tidAt(q)[TITLE] # tidAt(p)[TITLE]
    IN  (bpc = "returned" /\ worker # <<>> /\ good) =>
            /\ Cardinality(DOMAIN tiddlerToFile) = Cardinality(locs)
            /\ Cardinality(DOMAIN tiddlerCache) = Cardinality(locs)
            /\ \A p \in locs :
                  /\ tidAt(p)[TITLE] \in DOMAIN tiddlerToFile
                  /\ tiddlerToFile[tidAt(p)[TITLE]] = p
                  /\ tidAt(p)[TITLE] \in DOMAIN tiddlerCache
                  /\ tiddlerCache[tidAt(p)[TITLE]] = tidAt(p)

\* a pool of two workers has indexed three locations and the build returned
C14_Witness ==
    /\ bpc = "returned"
    /\ numWorkers = 2
    /\ Cardinality(walk(kind, backend)) = 3
    /\ Cardinality(DOMAIN tiddlerToFile) = 3

\* C15: when buildCacheAndIndex has returned, the walker has passed every
\* location to its callback, the channel is empty, no worker holds a location
\* and every location passed has been attempted by a worker.
C15_BuildReturnsAfterAllAttempted ==
    (bpc = "returned" /\ worker # <<>>) =>
        /\ walkLeft = {}
        /\ paths = <<>>
        /\ \A w \in DOMAIN worker : worker[w].st = "done"
        /\ tried = walk(kind, backend)

\* the build returned after three workers attempted two locations, one of
\* which could not be read
C15_Witness ==
    /\ bpc = "returned"
    /\ numWorkers = 3
    /\ MetaPath \in tried
    /\ Cardinality(tried) = 2
    /\ DOMAIN tiddlerToFile = {TitleA}

\* C16: when the enumeration itself works, no location ends the index build:
\* the build returns, and every location that can be read and parsed and that
\* holds a title is then in the Index and the Cache under its title.
C16_BuildSkipsBadLocations ==
    ~listFails =>
        /\ bpc # "panicked"
        /\ bpc = "returned" =>
               \A p \in walk(kind, backend) :
                   LET r == readTiddlerFileWithReadCloser(backend, p)
                   IN  (r.result = "ok" /\ TITLE \in DOMAIN r.tid) =>
                           /\ r.tid[TITLE] \in DOMAIN tiddlerToFile
                           /\ r.tid[TITLE] \in DOMAIN tiddlerCache

\* C18: when the backend's enumeration fails, the walk ends and the
\* constructor returns the failure as its error.
C18_ListFailureIsReturned ==
    (listFails /\ bpc # "walk") => bpc = "failed"


C19_MapsUnderMutualExclusion ==
    /\ ~crashed
    /\ \A c, d \in DOMAIN caller : c # d => ~(InMaps(c) /\ InMaps(d))
    /\ \A c \in DOMAIN caller :
          (caller[c].op = "get" /\ caller[c].pc \in {"read", "got"}) =>
              caller[c].inIndex = caller[c].inCache


\* C21: a tiddler whose values are strings, written by TiddlerFile.Write and
\* read back by TiddlerFile.Read, comes back with the same value for every
\* field it had.
C21_WriteReadRoundTrip ==
    (last.op = "read" /\ last.wrote \in {Write(last.t, o) : o \in Orders(last.t)}) =>
        /\ last.result = "ok"
        /\ \A f \in DOMAIN last.t : f \in DOMAIN last.ret /\ last.ret[f] = last.t[f]

\* where the lines of s start
LineStarts(s) == {1} \cup {i + 1 : i \in {j \in 1..Len(s) : s[j] = NL /\ j < Len(s)}}

\* the line of s that starts at a, without its line break
LineAt(s, a) ==
    LET ends == {j \in a..Len(s) : s[j] = NL}
    IN  IF ends = {} THEN SubSeq(s, a, Len(s))
        ELSE SubSeq(s, a, (CHOOSE j \in ends : \A k \in ends : j <= k) - 1)

\* the starts of the header lines of s: the lines before the first line that
\* holds nothing but white space
HeaderStarts(s) ==
    IF s = <<>> THEN {}
    ELSE {a \in LineStarts(s) :
             \A b \in LineStarts(s) : b <= a => ~reWhitespaceOnly(LineAt(s, b))}

\* the header lines of s that start with the name and a colon
HeadersNamed(s, name) ==
    {a \in HeaderStarts(s) : HasPrefix(LineAt(s, a), name \o <<":">>)}

\* the trimmed value of the header line at a, whose name is `name`
HeaderValue(s, a, name) ==
    TrimSpace(SubSeq(LineAt(s, a), Len(name) + 2, Len(LineAt(s, a))))

\* C22: a decode that succeeds yields revision "0" when the input has no
\* revision header (the empty input included), and the value of the (last)
\* revision header when it has one.
C22_ReadDefaultsRevision ==
    (last.op = "read" /\ last.result = "ok") =>
        LET revs == HeadersNamed(last.wrote, REVISION)
        IN  /\ REVISION \in DOMAIN last.ret
            /\ revs = {} => last.ret[REVISION] = <<"0">>
            /\ revs # {} =>
                  last.ret[REVISION] =
                      HeaderValue(last.wrote,
                                  CHOOSE a \in revs : \A b \in revs : b <= a, REVISION)

\* the empty input was decoded to a tiddler of revision "0"
C22_Witness ==
    /\ last.op = "read"
    /\ last.fail = "none"
    /\ last.t = EmptyTiddler
    /\ last.wrote = <<>>
    /\ last.result = "ok"
    /\ last.ret = SetField(EmptyTiddler, REVISION, <<"0">>)

\* C23: the title peek fails for a nil reader and for an input with no line
\* starting with "title:" before the first whitespace-only line or the end of
\* the input; otherwise it takes the first such line, fails when its trimmed
\* value is empty and returns that value when it is not.  Lines after the
\* whitespace-only line play no part.
C23_TitlePeek ==
    last.op = "peeked" =>
        LET titled == HeadersNamed(last.wrote, TITLE)
            first  == CHOOSE a \in titled : \A b \in titled : a <= b
        IN  IF last.fail = "nil" \/ titled = {}
            THEN last.result = "err"
            ELSE IF HeaderValue(last.wrote, first, TITLE) = <<>>
            THEN last.result = "err"
            ELSE /\ last.result = "ok"
                 /\ last.title = HeaderValue(last.wrote, first, TITLE)

\* the peek failed on an input whose only title line comes after the
\* whitespace-only line
C23_Witness ==
    /\ last.op = "peeked"
    /\ last.fail = "none"
    /\ last.result = "err"
    /\ HeadersNamed(last.wrote, TITLE) = {}
    /\ \E a \in LineStarts(last.wrote) : HasPrefix(LineAt(last.wrote, a), TitleColon)

\* C24: reading a .meta location reads the location without the suffix: the
\* read fails when that location cannot be read; otherwise the tiddler's text
\* is that location's content, as bytes when the type matches
\* /(pdf|gif|jpeg|png|x-icon)$ and as a string when it does not.
C24_SidecarText ==
    last.op = "located" =>
        IF ContentPath \notin DOMAIN backend
        THEN last.result = "err"
        ELSE /\ last.result = "ok"
             /\ last.reads = <<MetaPath, ContentPath>>
             /\ TEXT \in DOMAIN last.ret
             /\ last.ret[TEXT] =
                   IF reBinaryType(Field(Read(backend[MetaPath]).tid, TYPE))
                   THEN Bytes(backend[ContentPath])
                   ELSE backend[ContentPath]


\* C25: a PUT or DELETE of a tiddler by a request whose auth context has
\* WritingAllowed = false leaves the backend, the Index and the Cache as they
\* were.
C25_ReadOnlyCannotWrite ==
    [][ (calls' = calls + 1 /\ auth'.served \in {"put", "delete"}
            /\ ~auth'.ctx.WritingAllowed) =>
          UNCHANGED storeVars ]_vars

\* the request of the last call carried a pair that matches the credentials
C26_Matches ==
    /\ auth.req.hasBasic
    /\ auth.req.user \in DOMAIN creds.pw
    /\ creds.pw[auth.req.user] = auth.req.pass

C27_WritingAllowedOnlyForWriters ==
    (auth.served # "none" /\ auth.ok) =>
        /\ auth.ctx.WritingAllowed =>
              \/ creds.Writers.isNil
              \/ /\ auth.req.hasBasic
                 /\ auth.req.user \in DOMAIN creds.pw
                 /\ creds.pw[auth.req.user] = auth.req.pass
                 /\ (creds.Writers.users = {} \/ auth.req.user \in creds.Writers.users)
        /\ ~(/\ auth.req.hasBasic
             /\ auth.req.user \in DOMAIN creds.pw
             /\ creds.pw[auth.req.user] = auth.req.pass) => auth.ctx.Username = GUEST

\* bob authenticated and is not among the writers: accepted, read-only
C27_Witness ==
    /\ auth.served = "get"
    /\ auth.ok
    /\ auth.ctx.Username = Bob
    /\ ~auth.ctx.WritingAllowed
    /\ creds.Writers = Slice({Eve})


\* the workers that are between mu.Lock() and mu.Unlock()
C29_InCriticalSection == {w \in DOMAIN worker : worker[w].st \in {"index", "cache", "unlock"}}

\* C29: during the index build no two workers are between mu.Lock() and
\* mu.Unlock() at once, the mutex is held exactly while a worker is there, and
\* whenever it is not held the Index and the Cache hold the same titles.
C29_InsertsUnderOneMutex ==
    worker # <<>> =>
        /\ Cardinality(C29_InCriticalSection) <= 1
        /\ mu = 0 <=> C29_InCriticalSection = {}
        /\ mu # 0 => C29_InCriticalSection = {mu}
        /\ mu = 0 => DOMAIN tiddlerToFile = DOMAIN tiddlerCache

\* a worker holds the mutex between its two inserts, the Index already has the
\* title the Cache lacks, and another worker waits at mu.Lock()
C29_Witness ==
    /\ mu # 0
    /\ worker[mu].st = "cache"
    /\ worker[mu].tid[TITLE] \in DOMAIN tiddlerToFile
    /\ worker[mu].tid[TITLE] \notin DOMAIN tiddlerCache
    /\ \E w \in DOMAIN worker : w # mu /\ worker[w].st = "insert"


\* C28: after deleteWiki or renameWiki of a wiki that was there, its folder is
\* gone only if CopyFolder returned no error, and what the folder held is at
\* the destination (trash/<name>, wikis/<newName>).
C28_MovedNotLost ==
    (last.op \in {"deleteWiki", "renameWiki"} /\ last.had) =>
        /\ last.src \notin DOMAIN folders => ~last.copyErr
        /\ last.dst \in DOMAIN folders
        /\ last.content \subseteq folders[last.dst]


\* how often the callback was called with location p
C30_Calls(p) == Cardinality({i \in DOMAIN paths : paths[i] = p})

\* C30: when a store's walk has returned, its callback has been called exactly
\* once for every stored location under the tiddlers directory that qualifies,
\* and for nothing else, however many keys the backend holds.
C30_WalkVisitsEveryLocation ==
    bpc = "walked" =>
        /\ \A p \in Qualifying(kind, DOMAIN backend) : C30_Calls(p) = 1
        /\ \A i \in DOMAIN paths : paths[i] \in Qualifying(kind, DOMAIN backend)


\* s has no whitespace-only line, and each of its lines has a colon
C31_HeadersOnly(s) ==
    /\ s # <<>> => HeaderStarts(s) = LineStarts(s)
    /\ \A a \in HeaderStarts(s) : Index(LineAt(s, a), ":") # 0

\* the name of the header line at a: what stands before its first colon
C31_Name(s, a) == SubSeq(LineAt(s, a), 1, Index(LineAt(s, a), ":") - 1)

\* C31: an input of header lines that ends without a whitespace-only line is
\* decoded without error; the record holds the names of the header lines
\* (and revision), each with the trimmed value of the last line of that name,
\* so it has a text field only when a header line is named text.
C31_UnterminatedInputIsHeaderOnly ==
    (last.op = "read" /\ last.fail = "none" /\ C31_HeadersOnly(last.wrote)) =>
        /\ last.result = "ok"
        /\ DOMAIN last.ret
               = {C31_Name(last.wrote, a) : a \in HeaderStarts(last.wrote)} \cup {REVISION}
        /\ \A a \in HeaderStarts(last.wrote) :
              (\A b \in HeadersNamed(last.wrote, C31_Name(last.wrote, a)) : b <= a) =>
                  last.ret[C31_Name(last.wrote, a)]
                      = HeaderValue(last.wrote, a, C31_Name(last.wrote, a))

\* a title line that ends with the input, with no line break, was decoded
\* to a record of that title and no text
C31_Witness ==
    /\ last.op = "read"
    /\ last.fail = "none"
    /\ last.wrote = TitleColon \o <<" ", "F", "o", "o">>
    /\ last.result = "ok"
    /\ TEXT \notin DOMAIN last.ret
    /\ last.ret[TITLE] = <<"F", "o", "o">>


\* C38: TiddlerFile.Read on a non-nil reader returns, with a record or with an
\* error; it does not panic, whatever the lines of the input look like.
C38_ReadNeverPanics ==
    (last.op = "read" /\ last.fail = "none") => last.result \in {"ok", "err"}


\* C34: a GetTiddler(title) that succeeds returns a record whose title field
\* is the requested title, also for titles that share a canonical file name.
C34_GetReturnsRequestedTitle ==
    (last.op = "get" /\ last.result = "ok") =>
        /\ TITLE \in DOMAIN last.ret
        /\ last.ret[TITLE] = last.title


\* C35: after WriteTiddler and DeleteTiddler calls that all succeeded, every
\* location in the Index is an object of the backend, and every title of the
\* Cache is in the Index.
C35_NoDanglingIndexEntry ==
    /\ \A t \in DOMAIN tiddlerToFile : tiddlerToFile[t] \in DOMAIN backend
    /\ DOMAIN tiddlerCache \subseteq DOMAIN tiddlerToFile

\* C36: after WriteTiddler and DeleteTiddler calls that all succeeded, a new
\* buildCacheAndIndex over the backend finds the titles of the live Cache and,
\* for each, a record with the value the live record has for each of its fields.
C36_FreshBuildAgrees ==
    calls > 0 =>
    \A built \in buildCacheAndIndex(kind, backend) :
        /\ DOMAIN built.cache = DOMAIN tiddlerCache
        /\ \A t \in DOMAIN tiddlerCache :
           \A f \in DOMAIN tiddlerCache[t] :
              f \in DOMAIN built.cache[t] /\ built.cache[t][f] = tiddlerCache[t][f]


\* C39: after a PUT to .../tiddlers/<name> that was answered with success and
\* whose write to the backend went through (the story list, which is never
\* stored, aside), GetTiddler(<name>) returns the body that was sent, whatever
\* the body's own title field says.
C39_PutStoresUnderName ==
    (last.op = "put" /\ last.result = "ok" /\ last.fail = "none"
         /\ last.title # StoryList) =>
        \A g \in {getTiddlerFileFromStore(last.title, tiddlerToFile, tiddlerCache, backend)} :
            /\ g.result = "ok"
            /\ \A f \in DOMAIN last.t \ {REVISION} :
                  f \in DOMAIN g.tid /\ g.tid[f] = last.t[f]


AllCachesEmpty ==
    /\ Len(BufferBytes(indexCache)) = 0
    /\ Len(BufferBytes(faviconCache)) = 0
    /\ Cardinality(skinnyListCache.list) = 0

\* C32: a PUT or DELETE tiddler request leaves the handler's three caches
\* empty before it goes to the store, and an index or skinny-list request
\* that finds its cache empty lists the tiddlers of the store.
C32_ResetEmptiesCaches ==
    [][ /\ (writer.pc = "idle" /\ writer'.pc = "store") => AllCachesEmpty'
        /\ (writer.pc = "store" /\ writer'.pc = "idle") =>
               (calls' = calls + 1 /\ writer.op \in {"put", "delete"})
        /\ (reader.pc = "idle" /\ reader'.pc # "idle"
               /\ ~CacheHit(reader'.op, indexCache, skinnyListCache).hit) =>
               reader'.pc = "list"
        /\ (reader.pc = "list" /\ reader'.pc = "set") =>
               reader'.resp = Rendered(reader.op,
                   getAllTiddlerFilesFromStore(walk(kind, backend), tiddlerCache, backend).all)
      ]_vars

\* a write request has just reset caches that held something, an icon among
\* it, and a request that came after the reset is about to list the store
C32_Witness ==
    /\ writer.pc = "store"
    /\ writer.had
    /\ ~indexCache.isNil /\ ~faviconCache.isNil /\ ~skinnyListCache.isNil
    /\ AllCachesEmpty
    /\ reader.pc = "list"

\* a tiddler without the bag field that index adds
SansBag(t) == [f \in DOMAIN t \ {BAG} |-> t[f]]

\* C33: the response to an index or skinny-list request that started after a
\* PUT or DELETE completed, with no write request running since it started,
\* holds the tiddlers the handler makes of the store as it is (the bag field,
\* which index adds, left aside).
C33_ResponseReflectsWrites ==
    (/\ calls > 0
     /\ reader.pc = "idle" /\ reader.op # "none"
     /\ reader.quiet) =>
        {SansBag(t) : t \in reader.resp}
            = {SansBag(t) : t \in Rendered(reader.op,
                 getAllTiddlerFilesFromStore(walk(kind, backend), tiddlerCache, backend).all)}

\* C40: a step of an index or skinny-list request leaves the records of the
\* store's Cache as they are.
C40_GetLeavesCacheAlone ==
    [][writer' = writer => tiddlerCache' = tiddlerCache]_vars

====
